---- MODULE Spec2Model ----
(***************************************************************************)
(* Retrieval and ranking core of the document assistant:                   *)
(*   RAGService.search / RAGService.query   (app/services/rag_service.py)  *)
(*   DemoVideoService.find_demo_videos (app/services/demo_video_service.py)*)
(*                                                                         *)
(* Text is a sequence of one-character strings, so that lower(), split(),  *)
(* strip(), replace() and the substring test `a in b` are computed the way *)
(* Python computes them.  Scores are fixed-point integers: 1.0 = 10000.    *)
(***************************************************************************)
EXTENDS Integers, Sequences, FiniteSets, TLC

(***************************************************************************)
(* Bounds of the model.                                                    *)
(***************************************************************************)
MaxLimit == 3
NumDocs == 2
MaxHistory == 2

(***************************************************************************)
(* State                                                                   *)
(***************************************************************************)
VARIABLES
  collection,            \* the Chroma collection: stored chunks in order
  dist,                  \* dist[text][chunk id]: distance given by the index
  failing,               \* the index calls that raise
  query, user_role, limit, previously_used_docs,    \* arguments of search
  user_id,               \* the requesting user (search is not given it)
  pc,                    \* position in search
  term_index,            \* Strategy 4: terms searched so far
  all_results, unique_results, permission_filtered, filtered_results,
  run,                   \* which call of search this is, for the same request
  first_results,         \* what the first call returned
  question, content_type, conversation_history,     \* arguments of query
  is_action_request, topic_keywords, search_query,  \* locals of query
  demo_query, demo_limit,                           \* arguments of find_demo_videos
  cleaned_query, sorted_results, result_index,      \* locals of find_demo_videos
  videos, suggestions, seen_video_ids,
  response,              \* what find_demo_videos returned
  all_docs, entry_index, \* Strategy 5: the listing read and the place in it
  doc_ids, chunk_index,  \* Strategy 5: the ids of a document and the place in them
  llm_type,              \* the type of the model get_chat_model returned
  formatted_prompt,      \* the prompt query composed
  attempt,               \* the retry loop's counter
  invocations,           \* what each call of llm.invoke ended with, in order
  query_result           \* what query returned

index == <<collection, dist, failing>>
request == <<query, user_role, limit, previously_used_docs, user_id>>
locals == <<term_index, all_results, unique_results, permission_filtered, filtered_results>>
outer == <<run, first_results>>
caller == <<question, content_type, conversation_history,
            is_action_request, topic_keywords, search_query>>
demo == <<demo_query, demo_limit, cleaned_query, sorted_results, result_index,
          videos, suggestions, seen_video_ids, response>>
scan == <<all_docs, entry_index, doc_ids, chunk_index>>
answering == <<llm_type, formatted_prompt, attempt, invocations, query_result>>
vars == <<index, request, pc, locals, outer, caller, demo, scan, answering>>

(***************************************************************************)
(* Python str operations                                                   *)
(***************************************************************************)
Range(f) == {f[i] : i \in DOMAIN f}

UpperCase ==
  <<"A","B","C","D","E","F","G","H","I","J","K","L","M",
    "N","O","P","Q","R","S","T","U","V","W","X","Y","Z">>
LowerCase ==
  <<"a","b","c","d","e","f","g","h","i","j","k","l","m",
    "n","o","p","q","r","s","t","u","v","w","x","y","z">>

UpperToLower ==
  [c \in Range(UpperCase) |->
     LowerCase[CHOOSE i \in 1..Len(UpperCase) : UpperCase[i] = c]]

\* str.lower()
Lower(s) ==
  [i \in 1..Len(s) |-> IF s[i] \in DOMAIN UpperToLower THEN UpperToLower[s[i]] ELSE s[i]]

\* str.replace(a, b) for one-character a and b
Replace(s, a, b) == [i \in 1..Len(s) |-> IF s[i] = a THEN b ELSE s[i]]

IsSpace(c) == c \in {" ", "\n", "\t"}

\* str.strip()
RECURSIVE LStrip(_)
LStrip(s) == IF s # <<>> /\ IsSpace(Head(s)) THEN LStrip(Tail(s)) ELSE s

RECURSIVE RStrip(_)
RStrip(s) ==
  IF s # <<>> /\ IsSpace(s[Len(s)]) THEN RStrip(SubSeq(s, 1, Len(s) - 1)) ELSE s

Strip(s) == RStrip(LStrip(s))

\* the `sub in s` test on strings
Contains(sub, s) ==
  \E i \in 0..(Len(s) - Len(sub)) : SubSeq(s, i + 1, i + Len(sub)) = sub

\* str.split(sep) for a one-character sep: empty fields are kept, "" gives [""]
RECURSIVE SplitOnFrom(_, _, _)
SplitOnFrom(s, sep, cur) ==
  IF s = <<>> THEN <<cur>>
  ELSE IF Head(s) = sep THEN <<cur>> \o SplitOnFrom(Tail(s), sep, <<>>)
  ELSE SplitOnFrom(Tail(s), sep, Append(cur, Head(s)))

SplitOn(s, sep) == SplitOnFrom(s, sep, <<>>)

\* str.split() without argument: runs of whitespace separate, no empty fields
RECURSIVE SplitWsFrom(_, _)
SplitWsFrom(s, cur) ==
  IF s = <<>> THEN (IF cur = <<>> THEN <<>> ELSE <<cur>>)
  ELSE IF IsSpace(Head(s))
       THEN (IF cur = <<>> THEN <<>> ELSE <<cur>>) \o SplitWsFrom(Tail(s), <<>>)
       ELSE SplitWsFrom(Tail(s), Append(cur, Head(s)))

SplitWs(s) == SplitWsFrom(s, <<>>)

\* sep.join(words)
RECURSIVE Join(_, _)
Join(words, sep) ==
  IF words = <<>> THEN <<>>
  ELSE IF Len(words) = 1 THEN words[1]
  ELSE words[1] \o sep \o Join(Tail(words), sep)

\* list.sort(key=...) / sorted(key=...): stable, ascending; key[i] is the key
\* of seq[i].  The element at index i lands after every element with a
\* smaller key and after the earlier elements with an equal key.
SortByKey(seq, key) ==
  LET n == Len(seq)
      rank(i) == Cardinality({j \in 1..n : \/ key[j] < key[i]
                                            \/ (key[j] = key[i] /\ j < i)}) + 1
  IN  [p \in 1..n |-> seq[CHOOSE i \in 1..n : rank(i) = p]]

\* sorted(key=..., reverse=True): stable, descending (equal keys keep their order)
SortByKeyDesc(seq, key) ==
  LET n == Len(seq)
      rank(i) == Cardinality({j \in 1..n : \/ key[j] > key[i]
                                            \/ (key[j] = key[i] /\ j < i)}) + 1
  IN  [p \in 1..n |-> seq[CHOOSE i \in 1..n : rank(i) = p]]

\* the "score" of every entry of a list of results
Scores(seq) == [i \in 1..Len(seq) |-> seq[i].score]

\* seq[:n]
Take(seq, n) == SubSeq(seq, 1, IF n < Len(seq) THEN n ELSE Len(seq))

\* seq[n:]
Drop(seq, n) == IF n < Len(seq) THEN SubSeq(seq, n + 1, Len(seq)) ELSE <<>>

\* concatenation of a sequence of sequences
RECURSIVE Flatten(_)
Flatten(ss) == IF ss = <<>> THEN <<>> ELSE Head(ss) \o Flatten(Tail(ss))

(***************************************************************************)
(* Scoring constants of RAGService.search, 1.0 = 10000                     *)
(***************************************************************************)
SearchKFactor == 4
NormalizedWeightPct == 95
TermWeightPct == 70
MaxTermSearches == 3
MinTermLen == 3
MinScanTermLen == 4
ScanChunksPerDoc == 5
FilenameScanScore == 5000
FilenameStrongBoost == 4000
FilenamePartialBoost == 2500
FilenamePhraseBoost == 5000
TitleStrongBoost == 3500
TitlePartialBoost == 2000
TitlePhraseBoost == 4500
TagStrongBoost == 3000
TagPartialBoost == 1500
BoostEpsilon == 100
ContinuityBoost == 3000
PrefixLen == 50

Max(a, b) == IF a > b THEN a ELSE b

\* truth value of a Python int or None (None and a missing key are 0 here)
Truthy(n) == n # 0

(***************************************************************************)
(* RAGService.search: query normalisation (lines 123-132, 161-164, 211-212)*)
(***************************************************************************)
NormalizedQuery(q) == Replace(Lower(q), "-", " ")

HyphenatedQuery(q) == Replace(Lower(q), " ", "-")

SearchK(lim) == lim * SearchKFactor

StopWords ==
  { <<"w","h","a","t">>, <<"a","r","e">>, <<"t","h","e">>, <<"f","o","r">>,
    <<"i","s">>, <<"a">>, <<"a","n">>, <<"a","n","d">>, <<"o","r">>,
    <<"b","u","t">>, <<"i","n">>, <<"o","n">>, <<"a","t">>, <<"t","o">>,
    <<"o","f">>, <<"w","i","t","h">> }

ImportantTerms(q) ==
  SelectSeq(SplitWs(NormalizedQuery(q)),
            LAMBDA t : Len(t) > MinTermLen /\ t \notin StopWords)

\* query_terms of the boosting step: a set
QueryTerms(q) ==
  {t \in Range(SplitWs(Lower(NormalizedQuery(q)))) : Len(t) > MinTermLen}

(***************************************************************************)
(* The vector index (Chroma collection).  coll is the stored chunks in     *)
(* collection order, each [id, document, metadata]; d[text][id] is the     *)
(* distance the embedding gives between a text and a stored chunk.         *)
(***************************************************************************)
\* vector_store.similarity_search_with_score(text, k): the k nearest chunks,
\* nearest first
SimilaritySearch(coll, d, text, k) ==
  LET hits == [i \in 1..Len(coll) |->
                 [content |-> coll[i].document, metadata |-> coll[i].metadata,
                  score |-> d[text][coll[i].id]]]
  IN  IF k <= 0 THEN <<>> ELSE Take(SortByKey(hits, Scores(hits)), k)

\* (doc, score * weight) for every hit
Weighted(hits, pct) ==
  [i \in 1..Len(hits) |-> [hits[i] EXCEPT !.score = (hits[i].score * pct) \div 100]]

\* collection.get(where={"document_id": doc_id})
ChunksOfDocument(coll, doc_id) ==
  SelectSeq(coll, LAMBDA c : c.metadata.document_id = doc_id)

\* Strategy 5 (lines 176-204): for every stored chunk whose filename contains
\* a long important term, up to 5 chunks of its document at score 0.5
FilenameScan(coll, q) ==
  LET terms == {t \in Range(ImportantTerms(q)) : Len(t) > MinScanTermLen}
      forEntry(i) ==
        LET md == coll[i].metadata
            filename == Lower(md.filename)
            chunks == Take(ChunksOfDocument(coll, md.document_id), ScanChunksPerDoc)
        IN  IF /\ filename # <<>>
               /\ \E t \in terms : Contains(t, filename)
               /\ Truthy(md.document_id)
            THEN [j \in 1..Len(chunks) |->
                    [content |-> chunks[j].document, metadata |-> md,
                     score |-> FilenameScanScore]]
            ELSE <<>>
  IN  Flatten([i \in 1..Len(coll) |-> forEntry(i)])

(***************************************************************************)
(* Deduplication and document-level boosting (lines 206-282)               *)
(***************************************************************************)
\* page_content[:50]
ContentPrefix(content) == content.prefix

\* a key that leaves the document out
ChunkKeyContentOnly(r) == ContentPrefix(r.content)

\* chunk_id = f"{doc_id}_{doc.page_content[:50]}"
ChunkKey(r) == <<r.metadata.document_id, ContentPrefix(r.content)>>

\* first occurrence wins
Dedupe(results) ==
  LET keep == {i \in 1..Len(results) :
                 \A j \in 1..(i - 1) : ChunkKey(results[j]) # ChunkKey(results[i])}
  IN  [p \in 1..Cardinality(keep) |->
         results[CHOOSE i \in keep : Cardinality({j \in keep : j < i}) = p - 1]]

\* the phrase boost given to one-term queries as well
FilenameMatchScoreAnyPhrase(terms, filename) ==
  LET matching == Cardinality({t \in terms : Contains(t, filename)})
      n == Max(Cardinality(terms), 1)
      words == Range(SplitWs(filename))
      base == IF matching = 0 THEN 0
              ELSE IF 2 * matching >= n THEN 0 - FilenameStrongBoost
              ELSE 0 - ((FilenamePartialBoost * matching) \div n)
  IN  IF filename = <<>> THEN 0
      ELSE IF terms # {} /\ \A t \in terms : t \in words
           THEN 0 - FilenamePhraseBoost
           ELSE base

\* lines 227-245: a non-positive adjustment
FilenameMatchScore(terms, filename) ==
  LET matching == Cardinality({t \in terms : Contains(t, filename)})
      n == Max(Cardinality(terms), 1)
      words == Range(SplitWs(filename))
      base == IF matching = 0 THEN 0
              ELSE IF 2 * matching >= n THEN 0 - FilenameStrongBoost
              ELSE 0 - ((FilenamePartialBoost * matching) \div n)
  IN  IF filename = <<>> THEN 0
      ELSE IF Cardinality(terms) >= 2 /\ \A t \in terms : t \in words
           THEN 0 - FilenamePhraseBoost
           ELSE base

\* lines 247-260
TitleMatchScore(terms, title) ==
  LET matching == Cardinality({t \in terms : Contains(t, title)})
      n == Max(Cardinality(terms), 1)
      words == Range(SplitWs(title))
      base == IF matching = 0 THEN 0
              ELSE IF 2 * matching >= n THEN 0 - TitleStrongBoost
              ELSE 0 - ((TitlePartialBoost * matching) \div n)
  IN  IF title = <<>> THEN 0
      ELSE IF Cardinality(terms) >= 2 /\ \A t \in terms : t \in words
           THEN 0 - TitlePhraseBoost
           ELSE base

\* the tags of a document left out of the boost
TagMatchScoreIgnored(terms, tags) == 0

\* lines 262-274
TagMatchScore(terms, tags) ==
  LET tag_list == {Strip(tg) : tg \in Range(SplitOn(tags, ","))}
      matching == Cardinality({t \in terms : \E tg \in tag_list : Contains(t, tg)})
      n == Max(Cardinality(terms), 1)
  IN  IF tags = <<>> \/ matching = 0 THEN 0
      ELSE IF 2 * matching >= n THEN 0 - TagStrongBoost
      ELSE 0 - ((TagPartialBoost * matching) \div n)

\* line 277
BoostedScore(terms, r) ==
  r.score + FilenameMatchScore(terms, Lower(r.metadata.filename))
          + TitleMatchScore(terms, Lower(r.metadata.title))
          + TagMatchScore(terms, Lower(r.metadata.tags))

\* lines 207-282: unique_results, sorted by boosted score
RankResults(q, results) ==
  LET uniq == Dedupe(results)
      scored == [i \in 1..Len(uniq) |->
                   [content |-> uniq[i].content, metadata |-> uniq[i].metadata,
                    score |-> BoostedScore(QueryTerms(q), uniq[i]),
                    original_score |-> uniq[i].score]]
  IN  SortByKey(scored, Scores(scored))

(***************************************************************************)
(* Permission filter (lines 284-299)                                       *)
(***************************************************************************)
HasAccess(role, metadata) ==
  \/ metadata.is_public
  \/ role \in Range(SplitOn(metadata.allowed_roles, ","))
  \/ Truthy(metadata.owner_id)

FilterPermissions(role, results) ==
  SelectSeq(results, LAMBDA r : HasAccess(role, r.metadata))

(***************************************************************************)
(* Prioritisation and diversification (lines 301-373)                      *)
(***************************************************************************)
DocumentId(r) == r.metadata.document_id

\* keys of document_chunks, in insertion order
DocumentOrder(results) ==
  LET first == {i \in 1..Len(results) :
                  \A j \in 1..(i - 1) : DocumentId(results[j]) # DocumentId(results[i])}
  IN  [p \in 1..Cardinality(first) |->
         DocumentId(results[CHOOSE i \in first : Cardinality({j \in first : j < i}) = p - 1])]

\* lines 318-321 and 327: the documents whose chunks are taken first
BoostedDocuments(results, prev) ==
  {DocumentId(results[i]) : i \in {j \in 1..Len(results) :
      \/ results[j].original_score - results[j].score > BoostEpsilon
      \/ DocumentId(results[j]) \in prev}}

\* the continuity adjustment applied as a penalty
ApplyContinuityAdded(results, prev) ==
  [i \in 1..Len(results) |->
     IF DocumentId(results[i]) \in prev
     THEN [results[i] EXCEPT !.score = @ + ContinuityBoost]
     ELSE results[i]]

\* lines 324-326: result["score"] - 0.3 for previously used documents
ApplyContinuity(results, prev) ==
  [i \in 1..Len(results) |->
     IF DocumentId(results[i]) \in prev
     THEN [results[i] EXCEPT !.score = @ - ContinuityBoost]
     ELSE results[i]]

\* an iteration order that changes from one call of search to the next
SetIterOrderByRun(S) ==
  [p \in 1..Cardinality(S) |->
     CHOOSE v \in S : Cardinality({w \in S : IF run = 1 THEN w < v ELSE w > v}) = p - 1]

\* iteration order of a set of ints: CPython hashes an int to itself and the
\* table of a small set has 8 slots, so ids below 8 come out ascending
\* whatever the order of insertion, in every call and every process
SetIterOrder(S) ==
  [p \in 1..Cardinality(S) |-> CHOOSE v \in S : Cardinality({w \in S : w < v}) = p - 1]

ByScore(seq) == SortByKey(seq, Scores(seq))

\* document_chunks[doc_id]
ChunksOf(results, doc_id) == SelectSeq(results, LAMBDA r : DocumentId(r) = doc_id)

\* the first pass without its budget test
BoostedPassUnbounded(results, boosted, lim) ==
  LET docs == SetIterOrder(boosted)
  IN  ByScore(Flatten([i \in 1..Len(docs) |-> ByScore(ChunksOf(results, docs[i]))]))

\* the first pass taking only the best chunk of each boosted document
BoostedPassBestPerDocument(results, boosted, lim) ==
  LET docs == SetIterOrder(boosted)
  IN  Take(ByScore(Flatten([i \in 1..Len(docs) |->
                              Take(ByScore(ChunksOf(results, docs[i])), 1)])), lim)

\* lines 332-343: first priority
BoostedPass(results, boosted, lim) ==
  LET docs == SetIterOrder(boosted)
      boosted_chunks ==
        ByScore(Flatten([i \in 1..Len(docs) |-> ByScore(ChunksOf(results, docs[i]))]))
  IN  Take(boosted_chunks, lim)

\* the second pass without its share per document
DiversifyPassNoShare(results, boosted, lim, selected) ==
  LET non_boosted_docs == SelectSeq(DocumentOrder(results), LAMBDA d : d \notin boosted)
      room == lim - Len(selected)
      offered == Flatten([i \in 1..Len(non_boosted_docs) |->
                   ByScore(ChunksOf(results, non_boosted_docs[i]))])
  IN  IF non_boosted_docs # <<>> /\ Len(selected) < lim
      THEN selected \o Take(offered, room)
      ELSE selected

\* lines 345-355: second priority, appended to the selection so far
DiversifyPass(results, boosted, lim, selected) ==
  LET non_boosted_docs == SelectSeq(DocumentOrder(results), LAMBDA d : d \notin boosted)
      room == lim - Len(selected)
      chunks_per_doc == Max(1, room \div Max(Len(non_boosted_docs), 1))
      offered == Flatten([i \in 1..Len(non_boosted_docs) |->
                   Take(ByScore(ChunksOf(results, non_boosted_docs[i])), chunks_per_doc)])
  IN  IF non_boosted_docs # <<>> /\ Len(selected) < lim
      THEN selected \o Take(offered, room)
      ELSE selected

\* the contents of document_chunks when the third pass reads it: the lists the
\* earlier passes sorted in place are sorted, the others are in arrival order
ChunksAtBackfill(results, boosted, lim, afterBoosted, doc_id) ==
  LET diversified == /\ \E d \in Range(DocumentOrder(results)) : d \notin boosted
                     /\ Len(afterBoosted) < lim
  IN  IF doc_id \in boosted \/ diversified
      THEN ByScore(ChunksOf(results, doc_id))
      ELSE ChunksOf(results, doc_id)

\* the third pass without the test against what is already selected
BackfillPassNoSkip(results, boosted, lim, afterBoosted, selected) ==
  LET docs == DocumentOrder(results)
      remaining_chunks ==
        Flatten([i \in 1..Len(docs) |->
          ChunksAtBackfill(results, boosted, lim, afterBoosted, docs[i])])
  IN  IF Len(selected) < lim
      THEN selected \o Take(ByScore(remaining_chunks), lim - Len(selected))
      ELSE selected

\* lines 357-370: third priority
BackfillPass(results, boosted, lim, afterBoosted, selected) ==
  LET added_content == {ContentPrefix(r.content) : r \in Range(selected)}
      docs == DocumentOrder(results)
      remaining_chunks ==
        Flatten([i \in 1..Len(docs) |->
          SelectSeq(ChunksAtBackfill(results, boosted, lim, afterBoosted, docs[i]),
                    LAMBDA r : ContentPrefix(r.content) \notin added_content)])
  IN  IF Len(selected) < lim
      THEN selected \o Take(ByScore(remaining_chunks), lim - Len(selected))
      ELSE selected

\* the selection returned as the passes left it, without the final sort
SelectResultsUnsorted(permitted, prev, lim) ==
  LET boosted == BoostedDocuments(permitted, prev)
      results == ApplyContinuity(permitted, prev)
      first == BoostedPass(results, boosted, lim)
      second == DiversifyPass(results, boosted, lim, first)
  IN  BackfillPass(results, boosted, lim, first, second)

\* the final sort with equal scores left in the reverse of selection order
SelectResultsTiesReversed(permitted, prev, lim) ==
  LET boosted == BoostedDocuments(permitted, prev)
      results == ApplyContinuity(permitted, prev)
      first == BoostedPass(results, boosted, lim)
      second == DiversifyPass(results, boosted, lim, first)
      third == BackfillPass(results, boosted, lim, first, second)
  IN  ByScore([i \in 1..Len(third) |-> third[Len(third) + 1 - i]])

\* lines 301-373 on the permission-filtered list
SelectResults(permitted, prev, lim) ==
  LET boosted == BoostedDocuments(permitted, prev)
      results == ApplyContinuity(permitted, prev)
      first == BoostedPass(results, boosted, lim)
      second == DiversifyPass(results, boosted, lim, first)
      third == BackfillPass(results, boosted, lim, first, second)
  IN  ByScore(third)

(***************************************************************************)
(* Texts, documents and index contents the model draws its inputs from     *)
(***************************************************************************)
Q_segmentation == <<"s","e","g","m","e","n","t","a","t","i","o","n">>
Q_zero_trust == <<"z","e","r","o","-","t","r","u","s","t">>
Q_Zero_Trust == <<"Z","e","r","o"," ","T","r","u","s","t">>

F_zero_trust_segmentation ==
  <<"z","e","r","o","-","t","r","u","s","t","-","s","e","g","m","e","n","t","a","t","i","o","n",".","p","d","f">>
F_network == <<"n","e","t","w","o","r","k",".","p","d","f">>
F_segmentation_guide ==
  <<"s","e","g","m","e","n","t","a","t","i","o","n"," ","g","u","i","d","e",".","p","d","f">>
F_network_segmentation_guide ==
  <<"n","e","t","w","o","r","k"," ","s","e","g","m","e","n","t","a","t","i","o","n"," ","g","u","i","d","e",".","p","d","f">>
Q_network_segmentation ==
  <<"n","e","t","w","o","r","k"," ","s","e","g","m","e","n","t","a","t","i","o","n">>
Q_network_segmentation_routing ==
  <<"n","e","t","w","o","r","k"," ","s","e","g","m","e","n","t","a","t","i","o","n"," ","r","o","u","t","i","n","g">>
T_Zero_Trust_Segmentation ==
  <<"Z","e","r","o"," ","T","r","u","s","t"," ","S","e","g","m","e","n","t","a","t","i","o","n">>
T_network_basics == <<"n","e","t","w","o","r","k"," ","b","a","s","i","c","s">>
G_segmentation_zero_trust ==
  <<"s","e","g","m","e","n","t","a","t","i","o","n",","," ","z","e","r","o"," ","t","r","u","s","t">>

R_employee == <<"e","m","p","l","o","y","e","e">>
R_hr == <<"h","r">>
R_hr_employee == <<"h","r",",","e","m","p","l","o","y","e","e">>

\* requests for a demo video
D_show_me_eve_firewall == <<"s","h","o","w"," ","m","e"," ","e","v","e"," ","f","i","r","e","w","a","l","l">>
D_eve == <<"E","V","E">>
D_firewall_routing_eve == <<"f","i","r","e","w","a","l","l"," ","r","o","u","t","i","n","g"," ","e","v","e">>
D_encrypted_visibility_engine ==
  <<"e","n","c","r","y","p","t","e","d"," ","v","i","s","i","b","i","l","i","t","y"," ","e","n","g","i","n","e">>
D_please_generate_a_firewall_video ==
  <<"P","l","e","a","s","e"," ","g","e","n","e","r","a","t","e"," ","a"," ","f","i","r","e","w","a","l","l"," ","v","i","d","e","o">>

F_eve_firewall == <<"e","v","e","_","f","i","r","e","w","a","l","l",".","p","d","f">>
F_firewall_basics == <<"f","i","r","e","w","a","l","l","_","b","a","s","i","c","s",".","p","d","f">>
F_routing == <<"r","o","u","t","i","n","g",".","p","d","f">>
T_EVE_Firewall == <<"E","V","E"," ","F","i","r","e","w","a","l","l">>
T_Firewall_Basics == <<"F","i","r","e","w","a","l","l"," ","B","a","s","i","c","s">>
T_Routing == <<"R","o","u","t","i","n","g">>

X_eve_firewall_1 ==
  <<"S","e","c","u","r","i","t","y"," ","|"," ","E","V","E"," ","F","i","r","e","w","a","l","l","\n","y","o","u","t","u",".","b","e","/","v","1">>
X_eve_firewall_2 ==
  <<"T","A","G","S",":"," ","e","v","e",","," ","f","i","r","e","w","a","l","l","\n","h","t","t","p","s",":","/","/","y","o","u","t","u",".","b","e","/","v","1"," ","y","o","u","t","u",".","b","e","/","v","4">>
X_firewall_basics_1 ==
  <<"S","e","c","u","r","i","t","y"," ","|"," ","F","i","r","e","w","a","l","l"," ","B","a","s","i","c","s","\n","y","o","u","t","u",".","b","e","/","v","2">>
X_firewall_basics_2 == <<"F","i","r","e","w","a","l","l"," ","B","a","s","i","c","s"," ","n","o","t","e","s">>
X_routing_1 == <<"N","e","t","w","o","r","k"," ","|"," ","R","o","u","t","i","n","g","\n","y","o","u","t","u",".","b","e","/","v","3">>
X_routing_2 == <<"R","o","u","t","i","n","g"," ","n","o","t","e","s">>

DemoKinds == {"eve_firewall", "firewall_basics", "routing"}

\* the text of chunk s of a document with demo videos
ChunkText(kind, s) ==
  CASE kind = "eve_firewall" -> IF s = 1 THEN X_eve_firewall_1 ELSE X_eve_firewall_2
    [] kind = "firewall_basics" -> IF s = 1 THEN X_firewall_basics_1 ELSE X_firewall_basics_2
    [] kind = "routing" -> IF s = 1 THEN X_routing_1 ELSE X_routing_2

\* the metadata upload.py stores with every chunk of a document (lines 86-96);
\* a key that is absent reads as the default of metadata.get
DocKinds == {"zts_public", "zts_private", "net_public", "guide_unowned"}

\* public documents named after the query term that differ in tags and title
GuideKinds == {"guide_tagged", "guide_public", "guide_titled"}

\* public documents without title and tags that differ in their filenames
BoostKinds == {"guide_public", "netguide_public", "plain_public"}

Metadata(kind, doc_id) ==
  CASE kind = "zts_public" ->
         [document_id |-> doc_id, filename |-> F_zero_trust_segmentation,
          title |-> T_Zero_Trust_Segmentation, tags |-> G_segmentation_zero_trust,
          is_public |-> TRUE, allowed_roles |-> <<>>, owner_id |-> 1]
    [] kind = "zts_private" ->
         [document_id |-> doc_id, filename |-> F_zero_trust_segmentation,
          title |-> T_Zero_Trust_Segmentation, tags |-> G_segmentation_zero_trust,
          is_public |-> FALSE, allowed_roles |-> R_hr, owner_id |-> 2]
    [] kind = "net_public" ->
         [document_id |-> doc_id, filename |-> F_network,
          title |-> T_network_basics, tags |-> <<>>,
          is_public |-> TRUE, allowed_roles |-> <<>>, owner_id |-> 1]
    [] kind = "guide_unowned" ->
         [document_id |-> doc_id, filename |-> F_segmentation_guide,
          title |-> <<>>, tags |-> <<>>,
          is_public |-> FALSE, allowed_roles |-> R_hr, owner_id |-> 0]
    [] kind = "guide_tagged" ->
         [document_id |-> doc_id, filename |-> F_segmentation_guide,
          title |-> <<>>, tags |-> G_segmentation_zero_trust,
          is_public |-> TRUE, allowed_roles |-> <<>>, owner_id |-> 1]
    [] kind = "guide_public" ->
         [document_id |-> doc_id, filename |-> F_segmentation_guide,
          title |-> <<>>, tags |-> <<>>,
          is_public |-> TRUE, allowed_roles |-> <<>>, owner_id |-> 1]
    [] kind = "guide_titled" ->
         [document_id |-> doc_id, filename |-> F_segmentation_guide,
          title |-> T_Zero_Trust_Segmentation, tags |-> <<>>,
          is_public |-> TRUE, allowed_roles |-> <<>>, owner_id |-> 1]
    [] kind = "netguide_public" ->
         [document_id |-> doc_id, filename |-> F_network_segmentation_guide,
          title |-> <<>>, tags |-> <<>>,
          is_public |-> TRUE, allowed_roles |-> <<>>, owner_id |-> 1]
    [] kind = "plain_public" ->
         [document_id |-> doc_id, filename |-> F_network,
          title |-> <<>>, tags |-> <<>>,
          is_public |-> TRUE, allowed_roles |-> <<>>, owner_id |-> 1]
    [] kind = "eve_firewall" ->
         [document_id |-> doc_id, filename |-> F_eve_firewall,
          title |-> T_EVE_Firewall, tags |-> <<>>,
          is_public |-> TRUE, allowed_roles |-> <<>>, owner_id |-> 1]
    [] kind = "firewall_basics" ->
         [document_id |-> doc_id, filename |-> F_firewall_basics,
          title |-> T_Firewall_Basics, tags |-> <<>>,
          is_public |-> TRUE, allowed_roles |-> <<>>, owner_id |-> 1]
    [] kind = "routing" ->
         [document_id |-> doc_id, filename |-> F_routing,
          title |-> T_Routing, tags |-> <<>>,
          is_public |-> TRUE, allowed_roles |-> <<>>, owner_id |-> 1]

DocIds == 1..NumDocs
ChunkSlots == {1, 2}
\* distances of a document's two chunks to the query
DocDists == {<<3000, 7000>>, <<7000, 5000>>}
\* how the first 50 characters of the chunks relate
Layouts == {"unique", "shared", "samedoc"}

PrefixFor(layout, d, s) ==
  CASE layout = "unique" -> 10 * d + s
    [] layout = "shared" -> s
    [] layout = "samedoc" -> 10 * d

\* RAGService.add_document (lines 95-103): chunk i of a document gets the id
\* "<document_id>_<i>" and the document's metadata.  page_content is held
\* as [prefix, rest, text]: its first 50 characters, what follows them, and
\* the whole of it.  The documents search alone is run on have their two
\* parts named by numbers and no text spelled out.
StoredChunk(kind, layout, d, s) ==
  [id |-> <<d, s>>,
   document |->
     IF kind \in DemoKinds
     THEN [prefix |-> Take(ChunkText(kind, s), PrefixLen),
           rest |-> Drop(ChunkText(kind, s), PrefixLen),
           text |-> ChunkText(kind, s)]
     ELSE [prefix |-> PrefixFor(layout, d, s), rest |-> 10 * d + s, text |-> <<>>],
   metadata |-> Metadata(kind, d)]

CollectionOf(kindOf, layout, n) ==
  Flatten([d \in 1..n |-> [s \in 1..2 |-> StoredChunk(kindOf[d], layout, d, s)]])

\* the texts search sends to the index for a query
IssuedTexts(q) ==
  {q, NormalizedQuery(q), HyphenatedQuery(q)} \cup Range(ImportantTerms(q))

(***************************************************************************)
(* RAGService.search, one action per strategy step and per stage           *)
(***************************************************************************)
\* the steps that extend all_results, in program order
StepNames == {"direct", "normalized", "hyphenated", "term1", "term2", "term3", "scan"}

TermCall(i) == CASE i = 1 -> "term1" [] i = 2 -> "term2" [] OTHER -> "term3"

\* the calls to the index a step makes: strategy 5 reads the collection
\* (line 178), then the chunks of a document (187), then each chunk (192)
CallsOf(step) ==
  IF step = "scan" THEN {"scan_get", "scan_where", "scan_ids"} ELSE {step}

\* the calls that sit inside a try/except: lines 138-142, 146-150, 154-158,
\* 168-172, 176-204 (outer) and 191-202 (inner)
GuardedCalls ==
  {"direct", "normalized", "hyphenated", "term1", "term2", "term3",
   "scan_get", "scan_where", "scan_ids"}

\* the first strategy left without its try/except
GuardedButDirect(call) == call \in GuardedCalls \ {"direct"}

Guarded(call) == call \in GuardedCalls

\* some stored filename contains a long important term of the query
ScanMatches ==
  \E i \in 1..Len(collection) :
    /\ Truthy(collection[i].metadata.document_id)
    /\ \E t \in Range(ImportantTerms(query)) :
         Len(t) > MinScanTermLen /\ Contains(t, Lower(collection[i].metadata.filename))

\* whether search gets to make the call at all
Invoked(call) ==
  LET terms == Take(ImportantTerms(query), MaxTermSearches)
  IN  CASE call = "direct" -> TRUE
        [] call = "normalized" -> NormalizedQuery(query) # Lower(query)
        [] call = "hyphenated" -> HyphenatedQuery(query) # Lower(query)
        [] call = "term1" -> Len(terms) >= 1
        [] call = "term2" -> Len(terms) >= 2
        [] call = "term3" -> Len(terms) >= 3
        [] call = "scan_get" -> TRUE
        [] call = "scan_where" -> ScanMatches
        [] call = "scan_ids" -> ScanMatches

\* what a step appends to all_results when none of its calls raises
StepHits(step) ==
  LET terms == Take(ImportantTerms(query), MaxTermSearches)
      term(i) == Weighted(SimilaritySearch(collection, dist, terms[i],
                                           SearchK(limit) \div 2), TermWeightPct)
  IN  CASE step = "direct" ->
             SimilaritySearch(collection, dist, query, SearchK(limit))
        [] step = "normalized" ->
             IF Invoked(step)
             THEN Weighted(SimilaritySearch(collection, dist, NormalizedQuery(query),
                                            SearchK(limit)), NormalizedWeightPct)
             ELSE <<>>
        [] step = "hyphenated" ->
             IF Invoked(step)
             THEN Weighted(SimilaritySearch(collection, dist, HyphenatedQuery(query),
                                            SearchK(limit)), NormalizedWeightPct)
             ELSE <<>>
        [] step = "term1" -> IF Invoked(step) THEN term(1) ELSE <<>>
        [] step = "term2" -> IF Invoked(step) THEN term(2) ELSE <<>>
        [] step = "term3" -> IF Invoked(step) THEN term(3) ELSE <<>>
        [] step = "scan" -> FilenameScan(collection, query)

\* the calls of a step that raise
Raising(step) == {c \in CallsOf(step) : Invoked(c) /\ c \in failing}

\* one step: its hits are appended; a call that raises inside a try/except
\* leaves the list as it is; a call that raises outside one ends search
Attempt(step, next) ==
  IF Raising(step) = {}
  THEN /\ all_results' = all_results \o StepHits(step)
       /\ pc' = next
  ELSE /\ all_results' = all_results
       /\ pc' = IF \A c \in Raising(step) : Guarded(c) THEN next ELSE "raised"

\* lines 137-142
Strategy1 ==
  /\ pc = "strategy1"
  /\ Attempt("direct", "strategy2")
  /\ UNCHANGED <<scan, answering, demo, caller, outer, index, request, term_index, unique_results, permission_filtered, filtered_results>>

\* lines 144-150
Strategy2 ==
  /\ pc = "strategy2"
  /\ Attempt("normalized", "strategy3")
  /\ UNCHANGED <<scan, answering, demo, caller, outer, index, request, term_index, unique_results, permission_filtered, filtered_results>>

\* lines 152-158
Strategy3 ==
  /\ pc = "strategy3"
  /\ Attempt("hyphenated", "strategy4")
  /\ UNCHANGED <<scan, answering, demo, caller, outer, index, request, term_index, unique_results, permission_filtered, filtered_results>>

\* lines 160-172: one index call per important term, at most three
Strategy4 ==
  /\ pc = "strategy4"
  /\ IF term_index < Len(Take(ImportantTerms(query), MaxTermSearches))
     THEN /\ Attempt(TermCall(term_index + 1), "strategy4")
          /\ term_index' = term_index + 1
     ELSE /\ pc' = "strategy5"
          /\ UNCHANGED <<all_results, term_index>>
  /\ UNCHANGED <<scan, answering, demo, caller, outer, index, request, unique_results, permission_filtered, filtered_results>>

\* lines 174-204
Strategy5 ==
  /\ pc = "strategy5"
  /\ Attempt("scan", "rank")
  /\ UNCHANGED <<scan, answering, demo, caller, outer, index, request, term_index, unique_results, permission_filtered, filtered_results>>

\* lines 206-282
Rank ==
  /\ pc = "rank"
  /\ unique_results' = RankResults(query, all_results)
  /\ pc' = "filter"
  /\ UNCHANGED <<scan, answering, demo, caller, outer, index, request, term_index, all_results, permission_filtered, filtered_results>>

\* lines 284-299
Filter ==
  /\ pc = "filter"
  /\ permission_filtered' = FilterPermissions(user_role, unique_results)
  /\ pc' = "select"
  /\ UNCHANGED <<scan, answering, demo, caller, outer, index, request, term_index, all_results, unique_results, filtered_results>>

\* lines 301-390
Select ==
  /\ pc = "select"
  /\ filtered_results' = SelectResults(permission_filtered, previously_used_docs, limit)
  /\ pc' = "done"
  /\ UNCHANGED <<scan, answering, demo, caller, outer, index, request, term_index, all_results, unique_results, permission_filtered>>

SearchStep ==
  \/ Strategy1 \/ Strategy2 \/ Strategy3 \/ Strategy4 \/ Strategy5
  \/ Rank \/ Filter \/ Select

\* the caller repeats the call with the same arguments on the same index
SearchAgain ==
  /\ pc = "done"
  /\ run = 1
  /\ run' = 2
  /\ first_results' = filtered_results
  /\ term_index' = 0
  /\ all_results' = <<>>
  /\ unique_results' = <<>>
  /\ permission_filtered' = <<>>
  /\ filtered_results' = <<>>
  /\ pc' = "strategy1"
  /\ UNCHANGED <<scan, answering, demo, caller, index, request>>

(***************************************************************************)
(* RAGService.query: the rewriting of the question (lines 405-491)         *)
(***************************************************************************)
HistoryWindow == 10
MinSubstantialLen == 20
MinKeywordLen == 3
MaxKeywords == 5
QueryLimit == 10

\* content_type_hints; content_type "" stands for None
ContentTypeHint(ct) ==
  CASE ct = "doc" -> <<"d","o","c","u","m","e","n","t"," ","r","e","p","o","r","t"," ","i","n","f","o","r","m","a","t","i","o","n">>
    [] ct = "ppt" -> <<"p","r","e","s","e","n","t","a","t","i","o","n"," ","s","l","i","d","e","s"," ","c","o","n","t","e","n","t">>
    [] ct = "mp4" -> <<"d","e","m","o"," ","v","i","d","e","o"," ","t","u","t","o","r","i","a","l">>
    [] ct = "podcast" -> <<"d","i","a","l","o","g","u","e"," ","c","o","n","v","e","r","s","a","t","i","o","n"," ","i","n","t","e","r","v","i","e","w">>
    [] ct = "speech" -> <<"m","o","n","o","l","o","g","u","e"," ","s","p","e","e","c","h"," ","t","a","l","k","i","n","g"," ","p","o","i","n","t","s">>
    [] OTHER -> <<>>

ContentTypesWithHint == {"doc", "ppt", "mp4", "podcast", "speech"}

\* lines 406-417
EnhancedQuestion(q, ct) ==
  IF ct \in ContentTypesWithHint THEN q \o <<" ">> \o ContentTypeHint(ct) ELSE q

ActionPhrases ==
  {
    <<"s","a","v","e"," ","a","s">>,
    <<"s","a","v","e"," ","i","t"," ","a","s">>,
    <<"c","r","e","a","t","e">>,
    <<"g","e","n","e","r","a","t","e">>,
    <<"m","a","k","e">>,
    <<"c","o","n","v","e","r","t"," ","t","o">>,
    <<"e","x","p","o","r","t"," ","a","s">>,
    <<"d","o","w","n","l","o","a","d"," ","a","s">>,
    <<"t","u","r","n"," ","i","n","t","o">> }

\* lines 421-425
IsActionRequest(q, ct) ==
  LET question_lower == Strip(Lower(EnhancedQuestion(q, ct)))
  IN  \E phrase \in ActionPhrases : Contains(phrase, question_lower)

Acknowledgements ==
  {
    <<"y","e","s">>,
    <<"n","o">>,
    <<"o","k">>,
    <<"t","h","a","n","k","s">>,
    <<"t","h","a","n","k"," ","y","o","u">> }

FilenameStopWords ==
  {
    <<"s","t","u","d","y">>,
    <<"g","u","i","d","e">>,
    <<"d","e","m","o">>,
    <<"s","c","r","i","p","t">>,
    <<"d","e","c","k">>,
    <<"d","o","c","u","m","e","n","t">> }

\* reversed(seq)
Reversed(seq) == [i \in 1..Len(seq) |-> seq[Len(seq) + 1 - i]]

\* seq[-n:]
LastN(seq, n) == IF Len(seq) <= n THEN seq ELSE SubSeq(seq, Len(seq) - n + 1, Len(seq))

\* An entry of conversation_history is [kind, role, content, metadata]:
\* kind "dict" or the kind of another Python value; role "" when the key is
\* absent; content and metadata tagged "absent" (no key), "none" (None) or
\* present.  A source is [has_metadata, document_id, filename], with
\* document_id 0 and filename <<>> for what source["metadata"] lacks.

\* msg.get(...) on an entry that is not a dict raises AttributeError (line 436)
IsDict(msg) == msg.kind = "dict"

\* lines 436-441: an entry on which the first loop raises
AssistantScanRaises(msg) ==
  \/ ~IsDict(msg)
  \/ msg.role = "assistant" /\ msg.metadata.tag = "none"

\* lines 438-440: the sources of an assistant message
SourcesOf(msg) ==
  IF msg.role = "assistant" /\ msg.metadata.tag = "dict"
  THEN SelectSeq(msg.metadata.sources, LAMBDA src : src.has_metadata)
  ELSE <<>>

\* lines 441-444
CitedDocuments(msg) ==
  {src.document_id : src \in {s \in Range(SourcesOf(msg)) : Truthy(s.document_id)}}

\* lines 447-450
FilenameKeywords(filename) ==
  SelectSeq(SplitWs(Replace(Replace(Lower(filename), ".", " "), "-", " ")),
            LAMBDA wd : Len(wd) > MinKeywordLen /\ wd \notin FilenameStopWords)

\* lines 440-451 for one message
CitedKeywords(msg) ==
  LET sources == SourcesOf(msg)
  IN  Flatten([i \in 1..Len(sources) |-> FilenameKeywords(sources[i].filename)])

\* lines 456 and 471: msg.get("content", "").strip()
UserContent(msg) == IF msg.content.tag = "str" THEN Strip(msg.content.val) ELSE <<>>

\* lines 455-456 and 470-471: an entry on which the scan for the topic raises
UserScanRaises(msg) ==
  \/ ~IsDict(msg)
  \/ msg.role = "user" /\ msg.content.tag = "none"

\* lines 458 and 472
IsSubstantial(msg) ==
  /\ IsDict(msg)
  /\ msg.role = "user"
  /\ msg.content.tag = "str"
  /\ Len(UserContent(msg)) > MinSubstantialLen
  /\ Lower(UserContent(msg)) \notin Acknowledgements

\* position of the entry at which the scan of seq breaks, 0 if it does not
FirstSubstantial(seq) ==
  IF \E i \in 1..Len(seq) : IsSubstantial(seq[i])
  THEN CHOOSE i \in 1..Len(seq) :
         IsSubstantial(seq[i]) /\ \A j \in 1..(i - 1) : ~IsSubstantial(seq[j])
  ELSE 0

\* the scan raises at an entry it reaches before it breaks
TopicScanRaises(seq) ==
  \E i \in 1..Len(seq) :
    UserScanRaises(seq[i]) /\ \A j \in 1..(i - 1) : ~IsSubstantial(seq[j])

\* lines 454-462
UserKeywords(history) ==
  LET seq == Reversed(LastN(history, HistoryWindow))
      k == FirstSubstantial(seq)
  IN  IF k = 0 THEN <<>>
      ELSE SelectSeq(SplitWs(Lower(UserContent(seq[k]))),
                     LAMBDA wd : Len(wd) > MinKeywordLen)

\* the scan for the topic run from the oldest message on
TopicQueryOldestFirst(history) ==
  LET k == FirstSubstantial(history)
  IN  IF k = 0 THEN <<>> ELSE UserContent(history[k])

\* lines 468-474: topic_query, <<>> for None
TopicQuery(history) ==
  LET seq == Reversed(history)
      k == FirstSubstantial(seq)
  IN  IF k = 0 THEN <<>> ELSE UserContent(seq[k])

\* list(set(words)): the orders in which a set of str can come out; the hash
\* of a str is salted per process
SetOrders(S) == {f \in [1..Cardinality(S) -> S] : Range(f) = S}

\* lines 405-425
DetectAction ==
  /\ pc = "detect"
  /\ is_action_request' = IsActionRequest(question, content_type)
  /\ pc' = "scan_assistant"
  /\ UNCHANGED <<question, content_type, conversation_history, topic_keywords, search_query>>
  /\ UNCHANGED <<scan, answering, demo, outer, index, request, locals>>

\* lines 430-451
ScanAssistantMessages ==
  /\ pc = "scan_assistant"
  /\ LET window == Reversed(LastN(conversation_history, HistoryWindow))
     IN  IF \E i \in 1..Len(window) : AssistantScanRaises(window[i])
         THEN /\ pc' = "query_raised"
              /\ UNCHANGED <<previously_used_docs, topic_keywords>>
         ELSE /\ previously_used_docs' =
                   UNION {CitedDocuments(window[i]) : i \in 1..Len(window)}
              /\ topic_keywords' =
                   Flatten([i \in 1..Len(window) |-> CitedKeywords(window[i])])
              /\ pc' = "scan_user"
  /\ UNCHANGED <<question, content_type, conversation_history, is_action_request, search_query>>
  /\ UNCHANGED <<scan, answering, demo, outer, index, query, user_role, limit, user_id, locals>>

\* lines 453-462
ScanUserMessages ==
  /\ pc = "scan_user"
  /\ IF TopicScanRaises(Reversed(LastN(conversation_history, HistoryWindow)))
     THEN /\ pc' = "query_raised"
          /\ UNCHANGED topic_keywords
     ELSE /\ topic_keywords' = topic_keywords \o UserKeywords(conversation_history)
          /\ pc' = "build"
  /\ UNCHANGED <<question, content_type, conversation_history, is_action_request, search_query>>
  /\ UNCHANGED <<scan, answering, demo, outer, index, request, locals>>

\* lines 464-488
BuildSearchQuery ==
  /\ pc = "build"
  /\ IF is_action_request /\ conversation_history # <<>>
     THEN IF TopicScanRaises(Reversed(conversation_history))
          THEN /\ pc' = "query_raised"
               /\ UNCHANGED search_query
          ELSE /\ search_query' = IF TopicQuery(conversation_history) # <<>>
                                  THEN TopicQuery(conversation_history)
                                  ELSE question
               /\ pc' = "call_search"
     ELSE IF topic_keywords # <<>>
          THEN /\ \E order \in SetOrders(Range(topic_keywords)) :
                    search_query' =
                      question \o <<" ">> \o Join(Take(order, MaxKeywords), <<" ">>)
               /\ pc' = "call_search"
          ELSE /\ search_query' = question
               /\ pc' = "call_search"
  /\ UNCHANGED <<question, content_type, conversation_history, is_action_request, topic_keywords>>
  /\ UNCHANGED <<scan, answering, demo, outer, index, request, locals>>

\* line 491
CallSearch ==
  /\ pc = "call_search"
  /\ query' = search_query
  /\ limit' = QueryLimit
  /\ pc' = "strategy1"
  /\ UNCHANGED <<scan, answering, demo, caller, outer, index, user_role, previously_used_docs, user_id, locals>>

QueryStep ==
  \/ DetectAction \/ ScanAssistantMessages \/ ScanUserMessages
  \/ BuildSearchQuery \/ CallSearch

(***************************************************************************)
(* Questions and conversation histories the model draws from               *)
(***************************************************************************)
Q_save_it_as_a_doc == <<"s","a","v","e"," ","i","t"," ","a","s"," ","a"," ","d","o","c">>
Q_Make_a_deck == <<"M","a","k","e"," ","a"," ","d","e","c","k">>

U_zero_trust_segmentation == <<"z","e","r","o"," ","t","r","u","s","t"," ","s","e","g","m","e","n","t","a","t","i","o","n">>
U_padded_segmentation_of_networks ==
  <<" ","s","e","g","m","e","n","t","a","t","i","o","n"," ","o","f"," ","n","e","t","w","o","r","k","s","\n">>
U_padded_yes == <<" "," "," "," "," "," "," "," "," "," ","y","e","s"," "," "," "," "," "," "," "," "," "," ">>

NoContent == [tag |-> "absent", val |-> <<>>]
NullContent == [tag |-> "none", val |-> <<>>]
StrContent(text) == [tag |-> "str", val |-> text]
NoMetadata == [tag |-> "absent", sources |-> <<>>]
NullMetadata == [tag |-> "none", sources |-> <<>>]
DictMetadata(sources) == [tag |-> "dict", sources |-> sources]
Source(doc_id, filename) ==
  [has_metadata |-> TRUE, document_id |-> doc_id, filename |-> filename]
BareSource == [has_metadata |-> FALSE, document_id |-> 0, filename |-> <<>>]

\* the entries chat.py builds from stored messages (lines 848-855)
WellFormedMessages ==
  { [kind |-> "dict", role |-> "user",
     content |-> StrContent(U_zero_trust_segmentation), metadata |-> DictMetadata(<<>>)],
    [kind |-> "dict", role |-> "user",
     content |-> StrContent(U_padded_segmentation_of_networks), metadata |-> DictMetadata(<<>>)],
    [kind |-> "dict", role |-> "user",
     content |-> StrContent(U_padded_yes), metadata |-> DictMetadata(<<>>)],
    [kind |-> "dict", role |-> "assistant",
     content |-> StrContent(<<>>),
     metadata |-> DictMetadata(<<Source(1, F_zero_trust_segmentation)>>)] }

\* entries with fields missing, null or of another type
MalformedMessages ==
  { [kind |-> "dict", role |-> "", content |-> NoContent, metadata |-> NoMetadata],
    [kind |-> "dict", role |-> "assistant",
     content |-> NoContent, metadata |-> DictMetadata(<<BareSource>>)],
    [kind |-> "dict", role |-> "assistant",
     content |-> NoContent, metadata |-> NullMetadata],
    [kind |-> "dict", role |-> "user",
     content |-> NullContent, metadata |-> NoMetadata],
    [kind |-> "str", role |-> "", content |-> NoContent, metadata |-> NoMetadata] }

Histories(messages) == UNION {[1..n -> messages] : n \in 0..MaxHistory}

(***************************************************************************)
(* Regular expressions of demo_video_service.py.  A pattern is a sequence  *)
(* of items: <<"lit", text>>, <<"ws1">> for \s+, <<"ws0">> for \s*,        *)
(* <<"opt", items>> for (...)?, <<"alt", texts>> for (a|b|...),            *)
(* <<"bol">> for ^ and <<"eol">> for $.  Every quantifier is greedy; in    *)
(* the patterns below whatever follows a quantifier cannot match what the  *)
(* quantifier would give back, so matching needs no backtracking.          *)
(***************************************************************************)
\* number of whitespace characters of s from position pos on
RECURSIVE WsRun(_, _)
WsRun(s, pos) == IF pos <= Len(s) /\ IsSpace(s[pos]) THEN 1 + WsRun(s, pos + 1) ELSE 0

\* s has text at position pos
HasAt(s, pos, text) ==
  pos + Len(text) - 1 <= Len(s) /\ SubSeq(s, pos, pos + Len(text) - 1) = text

\* the position after the match of items at pos, 0 if there is none
RECURSIVE MatchItems(_, _, _)
MatchItems(items, s, pos) ==
  IF items = <<>> THEN pos
  ELSE LET item == Head(items)
           rest == Tail(items)
       IN  CASE item[1] = "lit" ->
                  IF HasAt(s, pos, item[2])
                  THEN MatchItems(rest, s, pos + Len(item[2])) ELSE 0
             [] item[1] = "ws1" ->
                  IF WsRun(s, pos) > 0
                  THEN MatchItems(rest, s, pos + WsRun(s, pos)) ELSE 0
             [] item[1] = "ws0" -> MatchItems(rest, s, pos + WsRun(s, pos))
             [] item[1] = "opt" ->
                  LET e == MatchItems(item[2], s, pos)
                  IN  MatchItems(rest, s, IF e # 0 THEN e ELSE pos)
             [] item[1] = "alt" ->
                  LET hits == {i \in 1..Len(item[2]) : HasAt(s, pos, item[2][i])}
                  IN  IF hits = {} THEN 0
                      ELSE LET first == CHOOSE i \in hits : \A j \in hits : i <= j
                           IN  MatchItems(rest, s, pos + Len(item[2][first]))
             [] item[1] = "bol" -> IF pos = 1 THEN MatchItems(rest, s, pos) ELSE 0
             [] item[1] = "eol" -> IF pos = Len(s) + 1 THEN MatchItems(rest, s, pos) ELSE 0

\* re.sub(pattern, '', s): every leftmost non-overlapping match removed
RECURSIVE SubFrom(_, _, _)
SubFrom(items, s, pos) ==
  IF pos > Len(s) THEN <<>>
  ELSE LET e == MatchItems(items, s, pos)
       IN  IF e > pos THEN SubFrom(items, s, e)
           ELSE <<s[pos]>> \o SubFrom(items, s, pos + 1)

Sub(items, s) == SubFrom(items, s, 1)

\* the patterns applied one after the other
RECURSIVE SubAll(_, _)
SubAll(patterns, s) ==
  IF patterns = <<>> THEN s ELSE SubAll(Tail(patterns), Sub(Head(patterns), s))

(***************************************************************************)
(* DemoVideoService._clean_query (lines 202-245)                           *)
(***************************************************************************)
generation_phrases ==
  <<<<<<"lit", <<"p","l","e","a","s","e">>>>, <<"ws1">>, <<"lit", <<"g","e","n","e","r","a","t","e">>>>, <<"ws1">>, <<"opt", <<<<"lit", <<"a">>>>, <<"ws1">>>>>>, <<"opt", <<<<"lit", <<"d","e","m","o">>>>, <<"ws1">>>>>>, <<"opt", <<<<"lit", <<"v","i","d","e","o">>>>, <<"ws1">>>>>>, <<"opt", <<<<"lit", <<"r","e","g","a","r","d","i","n","g">>>>, <<"ws1">>>>>>, <<"opt", <<<<"lit", <<"a","b","o","u","t">>>>, <<"ws1">>>>>>>>,
    <<<<"lit", <<"g","e","n","e","r","a","t","e">>>>, <<"ws1">>, <<"opt", <<<<"lit", <<"a">>>>, <<"ws1">>>>>>, <<"opt", <<<<"lit", <<"d","e","m","o">>>>, <<"ws1">>>>>>, <<"opt", <<<<"lit", <<"v","i","d","e","o">>>>, <<"ws1">>>>>>, <<"opt", <<<<"lit", <<"r","e","g","a","r","d","i","n","g">>>>, <<"ws1">>>>>>, <<"opt", <<<<"lit", <<"a","b","o","u","t">>>>, <<"ws1">>>>>>>>,
    <<<<"lit", <<"c","r","e","a","t","e">>>>, <<"ws1">>, <<"opt", <<<<"lit", <<"a">>>>, <<"ws1">>>>>>, <<"opt", <<<<"lit", <<"d","e","m","o">>>>, <<"ws1">>>>>>, <<"opt", <<<<"lit", <<"v","i","d","e","o">>>>, <<"ws1">>>>>>, <<"opt", <<<<"lit", <<"r","e","g","a","r","d","i","n","g">>>>, <<"ws1">>>>>>, <<"opt", <<<<"lit", <<"a","b","o","u","t">>>>, <<"ws1">>>>>>>>,
    <<<<"lit", <<"m","a","k","e">>>>, <<"ws1">>, <<"opt", <<<<"lit", <<"a">>>>, <<"ws1">>>>>>, <<"opt", <<<<"lit", <<"d","e","m","o">>>>, <<"ws1">>>>>>, <<"opt", <<<<"lit", <<"v","i","d","e","o">>>>, <<"ws1">>>>>>, <<"opt", <<<<"lit", <<"r","e","g","a","r","d","i","n","g">>>>, <<"ws1">>>>>>, <<"opt", <<<<"lit", <<"a","b","o","u","t">>>>, <<"ws1">>>>>>>>,
    <<<<"opt", <<<<"lit", <<"d","e","m","o">>>>, <<"ws1">>>>>>, <<"lit", <<"v","i","d","e","o">>>>, <<"ws1">>, <<"alt", <<<<"a","b","o","u","t">>, <<"r","e","g","a","r","d","i","n","g">>, <<"f","o","r">>, <<"o","n">>>>>>, <<"ws1">>>>,
    <<<<"bol">>, <<"lit", <<"p","l","e","a","s","e">>>>, <<"ws1">>>>,
    <<<<"ws1">>, <<"lit", <<"v","i","d","e","o">>>>, <<"ws0">>, <<"eol">>>>,
    <<<<"ws1">>, <<"lit", <<"d","e","m","o">>>>, <<"ws1">>, <<"lit", <<"v","i","d","e","o">>>>, <<"ws0">>, <<"eol">>>>>>

request_phrases ==
  <<<<<<"bol">>, <<"lit", <<"g","i","v","e">>>>, <<"ws1">>, <<"opt", <<<<"lit", <<"r","e">>>>, <<"opt", <<<<"lit", <<":">>>>>>>>, <<"ws0">>>>>>, <<"opt", <<<<"lit", <<"m","e">>>>, <<"ws1">>>>>>>>,
    <<<<"bol">>, <<"lit", <<"s","h","o","w">>>>, <<"ws1">>, <<"opt", <<<<"lit", <<"m","e">>>>, <<"ws1">>>>>>>>,
    <<<<"bol">>, <<"lit", <<"f","i","n","d">>>>, <<"ws1">>, <<"opt", <<<<"lit", <<"m","e">>>>, <<"ws1">>>>>>, <<"opt", <<<<"lit", <<"a">>>>, <<"ws1">>>>>>, <<"opt", <<<<"lit", <<"d","e","m","o">>>>, <<"ws1">>>>>>, <<"opt", <<<<"lit", <<"v","i","d","e","o">>>>, <<"ws1">>>>>>, <<"opt", <<<<"lit", <<"f","o","r">>>>, <<"ws1">>>>>>, <<"opt", <<<<"lit", <<"a","b","o","u","t">>>>, <<"ws1">>>>>>>>,
    <<<<"bol">>, <<"lit", <<"g","e","t">>>>, <<"ws1">>, <<"opt", <<<<"lit", <<"m","e">>>>, <<"ws1">>>>>>, <<"opt", <<<<"lit", <<"a">>>>, <<"ws1">>>>>>, <<"opt", <<<<"lit", <<"d","e","m","o">>>>, <<"ws1">>>>>>, <<"opt", <<<<"lit", <<"v","i","d","e","o">>>>, <<"ws1">>>>>>, <<"opt", <<<<"lit", <<"f","o","r">>>>, <<"ws1">>>>>>, <<"opt", <<<<"lit", <<"a","b","o","u","t">>>>, <<"ws1">>>>>>>>,
    <<<<"bol">>, <<"lit", <<"i">>>>, <<"ws1">>, <<"lit", <<"w","a","n","t">>>>, <<"ws1">>, <<"opt", <<<<"lit", <<"a">>>>, <<"ws1">>>>>>, <<"opt", <<<<"lit", <<"d","e","m","o">>>>, <<"ws1">>>>>>, <<"opt", <<<<"lit", <<"v","i","d","e","o">>>>, <<"ws1">>>>>>, <<"opt", <<<<"lit", <<"f","o","r">>>>, <<"ws1">>>>>>, <<"opt", <<<<"lit", <<"a","b","o","u","t">>>>, <<"ws1">>>>>>>>,
    <<<<"bol">>, <<"lit", <<"c","a","n">>>>, <<"ws1">>, <<"lit", <<"y","o","u">>>>, <<"ws1">>, <<"alt", <<<<"g","i","v","e">>, <<"s","h","o","w">>, <<"f","i","n","d">>, <<"g","e","t">>>>>>, <<"ws1">>, <<"opt", <<<<"lit", <<"m","e">>>>, <<"ws1">>>>>>, <<"opt", <<<<"lit", <<"a">>>>, <<"ws1">>>>>>, <<"opt", <<<<"lit", <<"d","e","m","o">>>>, <<"ws1">>>>>>, <<"opt", <<<<"lit", <<"v","i","d","e","o">>>>, <<"ws1">>>>>>, <<"opt", <<<<"lit", <<"f","o","r">>>>, <<"ws1">>>>>>, <<"opt", <<<<"lit", <<"a","b","o","u","t">>>>, <<"ws1">>>>>>>>>>

\* \w of the regular expressions, for the characters the model uses
WordChars ==
  {"a","b","c","d","e","f","g","h","i","j","k","l","m","n","o","p","q","r","s","t",
   "u","v","w","x","y","z","0","1","2","3","4","5","6","7","8","9","_"}
  \cup Range(UpperCase)

\* re.sub(r'[^\w\s-]', ' ', s)
SpecialCharsToSpace(s) ==
  [i \in 1..Len(s) |->
     IF s[i] \in WordChars \/ IsSpace(s[i]) \/ s[i] = "-" THEN s[i] ELSE " "]

clean_query(q) ==
  LET lowered == Strip(Lower(q))
      topic == SubAll(request_phrases, SubAll(generation_phrases, lowered))
  IN  Strip(Join(SplitWs(SpecialCharsToSpace(topic)), <<" ">>))

(***************************************************************************)
(* DemoVideoService: what it reads out of a chunk (lines 14-20, 86-118,    *)
(* 247-297)                                                                *)
(***************************************************************************)
ScoreOne == 10000
MinDemoTermLen == 2
TitleLines == 15
MaxPipeLineLen == 200
MinProductLen == 3
MinNameLineLen == 5
MaxNameLineLen == 150
TagWeight == 4000
ProductWeight == 3000
FilenameWeight == 2000
RagWeightDivisor == 10
SuggestionThreshold == 2000
SuggestionBoost == 1000
MinSuggestions == 3
SearchFactor == 2

\* YOUTUBE_PATTERNS: what may precede the video id, per pattern, lowercased
\* (the patterns are applied with re.IGNORECASE)
YOUTUBE_PATTERNS ==
  << <<<<"h","t","t","p","s",":","/","/","w","w","w",".","y","o","u","t","u","b","e",".","c","o","m","/","w","a","t","c","h","?","v","=">>, <<"h","t","t","p","s",":","/","/","y","o","u","t","u","b","e",".","c","o","m","/","w","a","t","c","h","?","v","=">>, <<"h","t","t","p",":","/","/","w","w","w",".","y","o","u","t","u","b","e",".","c","o","m","/","w","a","t","c","h","?","v","=">>, <<"h","t","t","p",":","/","/","y","o","u","t","u","b","e",".","c","o","m","/","w","a","t","c","h","?","v","=">>>>,
     <<<<"h","t","t","p","s",":","/","/","w","w","w",".","y","o","u","t","u",".","b","e","/">>, <<"h","t","t","p","s",":","/","/","y","o","u","t","u",".","b","e","/">>, <<"h","t","t","p",":","/","/","w","w","w",".","y","o","u","t","u",".","b","e","/">>, <<"h","t","t","p",":","/","/","y","o","u","t","u",".","b","e","/">>>>,
     <<<<"h","t","t","p","s",":","/","/","w","w","w",".","y","o","u","t","u","b","e",".","c","o","m","/","e","m","b","e","d","/">>, <<"h","t","t","p","s",":","/","/","y","o","u","t","u","b","e",".","c","o","m","/","e","m","b","e","d","/">>, <<"h","t","t","p",":","/","/","w","w","w",".","y","o","u","t","u","b","e",".","c","o","m","/","e","m","b","e","d","/">>, <<"h","t","t","p",":","/","/","y","o","u","t","u","b","e",".","c","o","m","/","e","m","b","e","d","/">>>>,
     <<<<"y","o","u","t","u","b","e",".","c","o","m","/","w","a","t","c","h","?","v","=">>>>,
     <<<<"y","o","u","t","u",".","b","e","/">>>> >>

\* [a-zA-Z0-9_-]
IdChars == WordChars \cup {"-"}

RECURSIVE IdRun(_, _)
IdRun(s, pos) == IF pos <= Len(s) /\ s[pos] \in IdChars THEN 1 + IdRun(s, pos + 1) ELSE 0

\* length of the leading part of one pattern matched at pos, 0 if none is
LinkPrefixAt(pattern, low, pos) ==
  LET hits == {i \in 1..Len(pattern) : HasAt(low, pos, pattern[i])}
  IN  IF hits = {} THEN 0
      ELSE Len(pattern[CHOOSE i \in hits : \A j \in hits : i <= j])

\* re.finditer(pattern, text): the video ids of the matches, left to right
RECURSIVE IdsFrom(_, _, _)
IdsFrom(pattern, text, pos) ==
  IF pos > Len(text) THEN <<>>
  ELSE LET n == LinkPrefixAt(pattern, Lower(text), pos)
           k == IdRun(text, pos + n)
       IN  IF n > 0 /\ k > 0
           THEN <<SubSeq(text, pos + n, pos + n + k - 1)>> \o IdsFrom(pattern, text, pos + n + k)
           ELSE IdsFrom(pattern, text, pos + 1)

\* the first occurrence of every element, in order
DedupeSeq(seq) ==
  LET keep == {i \in 1..Len(seq) : \A j \in 1..(i - 1) : seq[j] # seq[i]}
  IN  [p \in 1..Cardinality(keep) |->
         seq[CHOOSE i \in keep : Cardinality({j \in keep : j < i}) = p - 1]]

WatchUrl == <<"h","t","t","p","s",":","/","/","w","w","w",".","y","o","u","t","u","b","e",".","c","o","m","/","w","a","t","c","h","?","v","=">>
EmbedUrl == <<"h","t","t","p","s",":","/","/","w","w","w",".","y","o","u","t","u","b","e",".","c","o","m","/","e","m","b","e","d","/">>

\* _extract_youtube_links (lines 86-118)
extract_youtube_links(text) ==
  LET ids == DedupeSeq(Flatten([p \in 1..Len(YOUTUBE_PATTERNS) |->
                                  IdsFrom(YOUTUBE_PATTERNS[p], text, 1)]))
  IN  [i \in 1..Len(ids) |->
         [url |-> WatchUrl \o ids[i], video_id |-> ids[i], embed_url |-> EmbedUrl \o ids[i]]]

\* str.find: position of the first occurrence of sub in s, 0 if there is none
FindFirst(sub, s) ==
  LET hits == {i \in 1..Len(s) : HasAt(s, i, sub)}
  IN  IF hits = {} THEN 0 ELSE CHOOSE i \in hits : \A j \in hits : i <= j

\* the part of s from pos up to the end of its line
RestOfLine(s, pos) ==
  LET rest == SubSeq(s, pos, Len(s))
      nl == FindFirst(<<"\n">>, rest)
  IN  IF nl = 0 THEN rest ELSE SubSeq(rest, 1, nl - 1)

\* [x.strip() for x in s.split(',') if x.strip()]
CommaList(s) ==
  SelectSeq([i \in 1..Len(SplitOn(s, ",")) |-> Strip(SplitOn(s, ",")[i])],
            LAMBDA t : t # <<>>)

\* _extract_tags_from_content (lines 247-256): re.search(r'TAGS:\s*(.+)') with
\* IGNORECASE; when only whitespace follows "TAGS:" the group is blank or
\* there is no match, and the list is empty either way
extract_tags_from_content(content) ==
  LET at == FindFirst(<<"t","a","g","s",":">>, Lower(content))
      start == at + 5 + WsRun(content, at + 5)
  IN  IF at = 0 \/ start > Len(content) THEN <<>>
      ELSE CommaList(Strip(RestOfLine(content, start)))

\* re.sub(r'\s*demo\s*video\s*$', '', s, flags=re.IGNORECASE)
DemoVideoSuffix ==
  << <<"ws0">>, <<"lit", <<"d","e","m","o">>>>, <<"ws0">>, <<"lit", <<"v","i","d","e","o">>>>,
     <<"ws0">>, <<"eol">> >>

RemoveDemoVideoSuffix(s) ==
  LET hits == {p \in 1..Len(s) : MatchItems(DemoVideoSuffix, Lower(s), p) # 0}
  IN  IF hits = {} THEN s
      ELSE SubSeq(s, 1, (CHOOSE p \in hits : \A r \in hits : p <= r) - 1)

\* lines 273-276 and 286-288
CleanProduct(p) == Join(SplitWs(RemoveDemoVideoSuffix(Strip(p))), <<" ">>)

ProductIndicators ==
  { <<"s","n","o","r","t","m","l">>, <<"e","v","e">>, <<"a","i","o","p","s">>, <<"r","t","c">>, <<"s","g","t">>, <<"m","c","d">>, <<"h","y","p","e","r","s","h","i","e","l","d">>, <<"l","4">> }

\* lines 263-290 for one line: the product name it gives, <<>> for none
ProductOfLine(raw) ==
  LET line == Strip(raw)
      parts == SplitOn(line, "|")
  IN  IF line = <<>> \/ HasAt(line, 1, <<"T","A","G","S",":">>) THEN <<>>
      ELSE IF Contains(<<"|">>, line) /\ Len(line) < MaxPipeLineLen
      THEN (IF Len(CleanProduct(parts[Len(parts)])) > MinProductLen
            THEN CleanProduct(parts[Len(parts)]) ELSE <<>>)
      ELSE IF /\ Len(line) > MinNameLineLen
              /\ Len(line) < MaxNameLineLen
              /\ \E ind \in ProductIndicators : Contains(ind, Lower(line))
              /\ Len(CleanProduct(line)) > MinProductLen
      THEN CleanProduct(line)
      ELSE <<>>

\* Path(filename).stem for a filename without directories
Stem(filename) ==
  LET dots == {i \in 1..Len(filename) : filename[i] = "."}
      last == CHOOSE i \in dots : \A j \in dots : j <= i
  IN  IF dots # {} /\ 1 < last /\ last < Len(filename)
      THEN SubSeq(filename, 1, last - 1) ELSE filename

\* _extract_product_from_content (lines 258-297), <<>> for None
extract_product_from_content(content, filename) ==
  LET lines == Take(SplitOn(content, "\n"), TitleLines)
      found == {i \in 1..Len(lines) : ProductOfLine(lines[i]) # <<>>}
      name == Join(SplitWs(RemoveDemoVideoSuffix(
                Replace(Replace(Stem(filename), "_", " "), "-", " "))), <<" ">>)
  IN  IF found # {} THEN ProductOfLine(lines[CHOOSE i \in found : \A j \in found : i <= j])
      ELSE IF Len(name) > MinProductLen THEN name
      ELSE <<>>

(***************************************************************************)
(* DemoVideoService._matches_query_precisely (lines 299-497)               *)
(***************************************************************************)
product_acronyms ==
  << <<<<"e","v","e">>, <<<<"e","v","e">>, <<"e","n","c","r","y","p","t","e","d"," ","v","i","s","i","b","i","l","i","t","y"," ","e","n","g","i","n","e">>>>>>,
     <<<<"a","i","o","p","s">>, <<<<"a","i","o","p","s">>, <<"a","i"," ","o","p","s">>, <<"s","c","c">>, <<"s","e","c","u","r","i","t","y"," ","c","l","o","u","d"," ","c","o","n","t","r","o","l">>>>>>,
     <<<<"r","t","c">>, <<<<"r","t","c">>, <<"r","a","p","i","d"," ","t","h","r","e","a","t"," ","c","o","n","t","a","i","n","m","e","n","t">>>>>>,
     <<<<"s","g","t">>, <<<<"s","g","t">>, <<"s","e","c","u","r","i","t","y"," ","g","r","o","u","p"," ","t","a","g","s">>>>>>,
     <<<<"m","c","d">>, <<<<"m","c","d">>, <<"a","u","t","o","m","a","t","e","d"," ","c","l","o","u","d"," ","s","e","c","u","r","i","t","y"," ","o","r","c","h","e","s","t","r","a","t","i","o","n">>>>>>,
     <<<<"s","n","o","r","t","m","l">>, <<<<"s","n","o","r","t","m","l">>, <<"s","n","o","r","t"," ","m","l">>, <<"z","e","r","o"," ","d","a","y">>>>>> >>

\* lines 307-320 and 511-515
DemoQueryTerms(query_lower) ==
  LET terms == SelectSeq(SplitWs(query_lower), LAMBDA t : Len(t) > MinDemoTermLen)
  IN  IF terms # <<>> THEN terms
      ELSE IF query_lower # <<>> THEN <<query_lower>> ELSE <<>>

\* lines 322-341 and 519-535: metadata tags first, then the TAGS: line
AllTags(content, metadata) ==
  LET metadata_tags == CommaList(metadata.tags)
      content_tags == extract_tags_from_content(content)
  IN  DedupeSeq([i \in 1..Len(metadata_tags) |-> Lower(metadata_tags[i])]
                \o [i \in 1..Len(content_tags) |-> Lower(content_tags[i])])

\* lines 352 and 539
NormalizedFilename(filename) == Replace(Replace(Lower(filename), "_", " "), "-", " ")

\* term in word for some word of the text
InSomeWord(term, text) == \E wd \in Range(SplitWs(text)) : Contains(term, wd)

\* the acronym table never consulted
AcronymMatchNever(q, tags, product, fname) == FALSE

\* lines 370-383
AcronymMatch(q, tags, product, fname) ==
  \E a \in 1..Len(product_acronyms) :
    /\ q = product_acronyms[a][1] \/ q \in Range(product_acronyms[a][2])
    /\ \E v \in Range(product_acronyms[a][2]) :
         \/ \E tag \in Range(tags) : Contains(v, tag)
         \/ product # <<>> /\ Contains(v, product)
         \/ Contains(v, fname)

\* lines 385-408
ProductMatch(q, terms, product) ==
  /\ product # <<>>
  /\ \/ q = product \/ Contains(q, product) \/ Contains(product, q)
     \/ Len(terms) = 1 /\ (terms[1] \in Range(SplitWs(product)) \/ InSomeWord(terms[1], product))
     \/ \A t \in Range(terms) : Contains(t, product)

\* lines 410-452
TagMatch(q, terms, tags) ==
  /\ tags # <<>>
  /\ \/ \E tag \in Range(tags) : q = tag \/ Contains(q, tag) \/ Contains(tag, q)
     \/ IF Len(terms) = 1
        THEN \E tag \in Range(tags) :
               \/ Contains(terms[1], tag)
               \/ terms[1] \in Range(SplitWs(tag))
               \/ InSomeWord(terms[1], tag)
        ELSE \A t \in Range(terms) : \E tag \in Range(tags) : Contains(t, tag)

\* lines 454-480
FilenameMatch(terms, fname) ==
  /\ terms # <<>>
  /\ IF Len(terms) = 1
     THEN \/ terms[1] \in Range(SplitWs(fname))
          \/ InSomeWord(terms[1], fname)
          \/ Contains(terms[1], fname)
     ELSE \A t \in Range(terms) : InSomeWord(t, fname) \/ Contains(t, fname)

\* lines 482-493
TitleMatch(terms, title) ==
  /\ terms # <<>>
  /\ title # <<>>
  /\ IF Len(terms) = 1
     THEN terms[1] \in Range(SplitWs(title)) \/ InSomeWord(terms[1], title)
     ELSE \A t \in Range(terms) : InSomeWord(t, title)

matches_query_precisely(q, content, filename, metadata) ==
  LET query_lower == Strip(Lower(q))
      query_terms == DemoQueryTerms(query_lower)
      all_tags == AllTags(content, metadata)
      product_lower == Lower(extract_product_from_content(content, filename))
      filename_lower == NormalizedFilename(filename)
  IN  \/ AcronymMatch(query_lower, all_tags, product_lower, filename_lower)
      \/ ProductMatch(query_lower, query_terms, product_lower)
      \/ TagMatch(query_lower, query_terms, all_tags)
      \/ FilenameMatch(query_terms, filename_lower)
      \/ TitleMatch(query_terms, Lower(metadata.title))

(***************************************************************************)
(* DemoVideoService._calculate_relevance_score (lines 499-586), 1.0 = 10000*)
(***************************************************************************)
\* lines 511-515: "" gives [""]
RelevanceTerms(query_lower) ==
  LET terms == SelectSeq(SplitWs(query_lower), LAMBDA t : Len(t) > MinDemoTermLen)
  IN  IF terms # <<>> THEN terms ELSE <<query_lower>>

\* matching_terms / len(query_terms) * weight, 0 when nothing matches
Share(matching, total, weight) == (matching * weight) \div total

\* line 578
NormalizedRag(rag_score) ==
  IF rag_score < 0
  THEN Max(0, IF (rag_score + ScoreOne) \div 2 < ScoreOne
              THEN (rag_score + ScoreOne) \div 2 ELSE ScoreOne)
  ELSE IF rag_score < ScoreOne THEN rag_score ELSE ScoreOne

calculate_relevance_score(q, content, filename, metadata, rag_score) ==
  LET query_lower == Strip(Lower(q))
      query_terms == RelevanceTerms(query_lower)
      n == Len(query_terms)
      terms == {i \in 1..n : TRUE}
      all_tags == AllTags(content, metadata)
      product_lower == Lower(extract_product_from_content(content, filename))
      filename_lower == NormalizedFilename(filename)
      in_tags == Cardinality({i \in terms : \E tag \in Range(all_tags) :
                    \/ Contains(query_terms[i], tag)
                    \/ Contains(tag, query_terms[i])
                    \/ query_terms[i] \in Range(SplitWs(tag))})
      in_product == Cardinality({i \in terms :
                    \/ Contains(query_terms[i], product_lower)
                    \/ InSomeWord(query_terms[i], product_lower)})
      in_filename == Cardinality({i \in terms :
                    \/ InSomeWord(query_terms[i], filename_lower)
                    \/ Contains(query_terms[i], filename_lower)})
      score == (IF all_tags # <<>> THEN Share(in_tags, n, TagWeight) ELSE 0)
               + (IF product_lower # <<>> THEN Share(in_product, n, ProductWeight) ELSE 0)
               + Share(in_filename, n, FilenameWeight)
               + NormalizedRag(rag_score) \div RagWeightDivisor
  IN  IF score < ScoreOne THEN score ELSE ScoreOne

(***************************************************************************)
(* DemoVideoService.find_demo_videos (lines 588-879).  A video record      *)
(* carries the fields the service decides on; title and description are    *)
(* display strings cut out of the chunk and are left out.                  *)
(***************************************************************************)
\* lines 619 and 663
QueryForMatching(cleaned, q) == IF cleaned # <<>> THEN cleaned ELSE q

\* the links of one chunk appended without the test against seen_video_ids
RECURSIVE AddVideosKeepsDuplicates(_, _, _, _, _, _, _)
AddVideosKeepsDuplicates(vids, seen, links, filename, score, tagged, lim) ==
  IF links = <<>> THEN [videos |-> vids, seen |-> seen]
  ELSE LET link == Head(links)
           info == [video_id |-> link.video_id, url |-> link.url,
                    embed_url |-> link.embed_url, source_document |-> filename,
                    relevance_score |-> score, is_suggestion |-> tagged]
       IN  IF Len(vids) + 1 >= lim
           THEN [videos |-> Append(vids, info), seen |-> seen \cup {link.video_id}]
           ELSE AddVideosKeepsDuplicates(Append(vids, info), seen \cup {link.video_id},
                                         Tail(links), filename, score, tagged, lim)

\* lines 702-746 and 793-834: the links of one chunk appended to videos, a
\* known video id skipped, stopping once videos has reached the limit
RECURSIVE AddVideos(_, _, _, _, _, _, _)
AddVideos(vids, seen, links, filename, score, tagged, lim) ==
  IF links = <<>> THEN [videos |-> vids, seen |-> seen]
  ELSE LET link == Head(links)
           info == [video_id |-> link.video_id, url |-> link.url,
                    embed_url |-> link.embed_url, source_document |-> filename,
                    relevance_score |-> score, is_suggestion |-> tagged]
       IN  IF link.video_id \in seen
           THEN AddVideos(vids, seen, Tail(links), filename, score, tagged, lim)
           ELSE IF Len(vids) + 1 >= lim
           THEN [videos |-> Append(vids, info), seen |-> seen \cup {link.video_id}]
           ELSE AddVideos(Append(vids, info), seen \cup {link.video_id},
                          Tail(links), filename, score, tagged, lim)

\* the condition with its first half dropped
UseSuggestionsWhenAny(vids, sugs) == sugs # <<>>

\* the suggestions never used
UseSuggestionsNever(vids, sugs) == FALSE

\* line 753
UseSuggestions(vids, sugs) == vids = <<>> /\ sugs # <<>>

\* lines 760 and 776: sort by (relevance_score, rag_score), reverse=True
SortSuggestions(sugs) ==
  LET by_rag == SortByKeyDesc(sugs, [i \in 1..Len(sugs) |-> sugs[i].rag_score])
  IN  SortByKeyDesc(by_rag, [i \in 1..Len(by_rag) |-> by_rag[i].relevance_score])

\* lines 764-765
CleanedQueryTerms(cleaned, q) ==
  LET cleaned_query_lower == IF cleaned # <<>> THEN Lower(cleaned) ELSE Lower(q)
      long == SelectSeq(SplitWs(cleaned_query_lower), LAMBDA t : Len(t) > MinDemoTermLen)
  IN  IF long # <<>> THEN long ELSE <<cleaned_query_lower>>

\* lines 767-773
BoostSuggestions(sugs, cleaned, q) ==
  LET cleaned_query_terms == CleanedQueryTerms(cleaned, q)
  IN  [i \in 1..Len(sugs) |->
         IF /\ \E t \in Range(cleaned_query_terms) : Contains(t, Lower(sugs[i].filename))
            /\ sugs[i].relevance_score < SuggestionThreshold
         THEN [sugs[i] EXCEPT !.relevance_score =
                 Max(SuggestionThreshold, @ + SuggestionBoost)]
         ELSE sugs[i]]

\* lines 783-837: the videos of the top suggestions
RECURSIVE AddSuggestions(_, _, _, _)
AddSuggestions(acc, top, k, lim) ==
  IF k > Len(top) \/ (k > 1 /\ Len(acc.videos) >= lim) THEN acc
  ELSE AddSuggestions(AddVideos(acc.videos, acc.seen, top[k].youtube_links,
                                top[k].result.metadata.filename,
                                top[k].relevance_score, TRUE, lim),
                      top, k + 1, lim)

\* videos.sort(key=relevance_score, reverse=True)
SortVideos(vids) ==
  SortByKeyDesc(vids, [i \in 1..Len(vids) |-> vids[i].relevance_score])

\* a message of the response: which of the five texts it is, the number and
\* the query the text is formatted with (0 and <<>> where it takes none)
Message(kind, count, about) == [kind |-> kind, count |-> count, about |-> about]

\* the response, its is_suggestion FALSE where the code leaves the key out
NoResponse ==
  [status |-> "", videos |-> <<>>, message |-> Message("", 0, <<>>),
   is_suggestion |-> FALSE]

\* lines 630-634
NoDocumentsResponse(cleaned, q) ==
  [status |-> "success", videos |-> <<>>,
   message |-> Message("No documents found matching", 0, QueryForMatching(cleaned, q)),
   is_suggestion |-> FALSE]

\* lines 854-858
NotFoundResponse(cleaned, q) ==
  [status |-> "success", videos |-> <<>>,
   message |-> Message("No demo videos found for", 0, QueryForMatching(cleaned, q)),
   is_suggestion |-> FALSE]

\* lines 873-879
ErrorResponse ==
  [status |-> "error", videos |-> <<>>,
   message |-> Message("Error searching for demo videos", 0, <<>>),
   is_suggestion |-> FALSE]

\* lines 614-619
Clean ==
  /\ pc = "clean"
  /\ cleaned_query' = clean_query(demo_query)
  /\ pc' = "retrieve"
  /\ UNCHANGED <<demo_query, demo_limit, sorted_results, result_index, videos,
                 suggestions, seen_video_ids, response>>
  /\ UNCHANGED <<scan, answering, caller, outer, index, request, locals>>

\* lines 621-626: the call of search
Retrieve ==
  /\ pc = "retrieve"
  /\ query' = QueryForMatching(cleaned_query, demo_query)
  /\ limit' = demo_limit * SearchFactor
  /\ previously_used_docs' = {}
  /\ pc' = "strategy1"
  /\ UNCHANGED <<scan, answering, demo, caller, outer, index, user_role, user_id, locals>>

\* lines 628-645 and 873-879: search has returned, or has raised
ReceiveResults ==
  /\ pc \in {"done", "raised"}
  /\ IF pc = "raised"
     THEN /\ response' = ErrorResponse
          /\ pc' = "responded"
          /\ UNCHANGED sorted_results
     ELSE IF filtered_results = <<>>
     THEN /\ response' = NoDocumentsResponse(cleaned_query, demo_query)
          /\ pc' = "responded"
          /\ UNCHANGED sorted_results
     ELSE /\ sorted_results' = SortByKeyDesc(filtered_results, Scores(filtered_results))
          /\ pc' = "classify"
          /\ UNCHANGED response
  /\ result_index' = 0
  /\ videos' = <<>>
  /\ suggestions' = <<>>
  /\ seen_video_ids' = {}
  /\ UNCHANGED <<demo_query, demo_limit, cleaned_query>>
  /\ UNCHANGED <<scan, answering, caller, outer, index, request, locals>>

\* lines 647-750: one round of the loop over sorted_results
ClassifyResult ==
  /\ pc = "classify"
  /\ IF result_index < Len(sorted_results)
     THEN \E result \in {sorted_results[result_index + 1]} :
          \E youtube_links \in {extract_youtube_links(result.content.text)} :
          \E query_for_matching \in {QueryForMatching(cleaned_query, demo_query)} :
            LET original_content == result.content.text
                metadata == result.metadata
                rag_score == result.score
                filename == metadata.filename
            IN  /\ result_index' = result_index + 1
                /\ IF youtube_links = <<>>
                   THEN /\ pc' = pc
                        /\ UNCHANGED <<videos, suggestions, seen_video_ids>>
                   ELSE IF ~matches_query_precisely(query_for_matching, original_content,
                                                    filename, metadata)
                   THEN \E relevance_score \in
                            {calculate_relevance_score(query_for_matching, original_content,
                                                       filename, metadata, rag_score)} :
                          /\ suggestions' =
                               IF relevance_score > SuggestionThreshold
                               THEN Append(suggestions,
                                           [result |-> result,
                                            youtube_links |-> youtube_links,
                                            relevance_score |-> relevance_score,
                                            rag_score |-> rag_score,
                                            filename |-> filename])
                               ELSE suggestions
                          /\ pc' = pc
                          /\ UNCHANGED <<videos, seen_video_ids>>
                   ELSE \E added \in {AddVideos(videos, seen_video_ids, youtube_links,
                                                filename, rag_score, FALSE, demo_limit)} :
                          /\ videos' = added.videos
                          /\ seen_video_ids' = added.seen
                          /\ pc' = IF Len(added.videos) >= demo_limit
                                   THEN "deliver" ELSE pc
                          /\ UNCHANGED suggestions
     ELSE /\ pc' = "deliver"
          /\ UNCHANGED <<result_index, videos, suggestions, seen_video_ids>>
  /\ UNCHANGED <<demo_query, demo_limit, cleaned_query, sorted_results, response>>
  /\ UNCHANGED <<scan, answering, caller, outer, index, request, locals>>

\* lines 752-871
Deliver ==
  /\ pc = "deliver"
  /\ IF UseSuggestions(videos, suggestions)
     THEN LET sorted == SortSuggestions(BoostSuggestions(SortSuggestions(suggestions),
                                                         cleaned_query, demo_query))
              max_suggestions == IF demo_limit < Max(MinSuggestions, Len(sorted))
                                 THEN demo_limit ELSE Max(MinSuggestions, Len(sorted))
              added == AddSuggestions([videos |-> videos, seen |-> seen_video_ids],
                                      Take(sorted, max_suggestions), 1, demo_limit)
          IN  /\ suggestions' = sorted
              /\ videos' = SortVideos(added.videos)
              /\ seen_video_ids' = added.seen
              /\ response' = [status |-> "success", videos |-> SortVideos(added.videos),
                              message |-> Message("Perhaps you are referring to", 0, <<>>),
                              is_suggestion |-> TRUE]
     ELSE IF videos = <<>>
     THEN /\ response' = NotFoundResponse(cleaned_query, demo_query)
          /\ UNCHANGED <<videos, suggestions, seen_video_ids>>
     ELSE /\ videos' = SortVideos(videos)
          /\ response' = [status |-> "success", videos |-> SortVideos(videos),
                          message |-> Message("Found", Len(videos), demo_query),
                          is_suggestion |-> FALSE]
          /\ UNCHANGED <<suggestions, seen_video_ids>>
  /\ pc' = "responded"
  /\ UNCHANGED <<demo_query, demo_limit, cleaned_query, sorted_results, result_index>>
  /\ UNCHANGED <<scan, answering, caller, outer, index, request, locals>>

DemoStep == Clean \/ Retrieve \/ ReceiveResults \/ ClassifyResult \/ Deliver

(***************************************************************************)
(* Initial states: an index and a request drawn from bounded sets          *)
(***************************************************************************)
InitLocals ==
  /\ term_index = 0
  /\ all_results = <<>>
  /\ unique_results = <<>>
  /\ permission_filtered = <<>>
  /\ filtered_results = <<>>
  /\ all_docs = <<>>
  /\ entry_index = 0
  /\ doc_ids = <<>>
  /\ chunk_index = 0

\* an index of n documents of two chunks each; every text the query issues
\* is at the same distance from a chunk
InitIndexFor(text, sizes, kinds, layouts) ==
  \E n \in sizes :
    /\ \E kindOf \in [1..n -> kinds], layout \in layouts :
         collection = CollectionOf(kindOf, layout, n)
    /\ \E distOf \in [1..n -> DocDists] :
         dist = [t \in IssuedTexts(text) |->
                   [id \in (1..n) \X ChunkSlots |-> distOf[id[1]][id[2]]]]

InitIndex(sizes, kinds, layouts) == InitIndexFor(query, sizes, kinds, layouts)

\* search called directly: no question is being rewritten
\* nothing of an answer exists yet
NoPrompt == [history_context |-> <<>>, context |-> <<>>, question |-> <<>>]
NoResult == [answer |-> [kind |-> "", text |-> <<>>], sources |-> <<>>]

NoAnswering ==
  /\ llm_type = ""
  /\ formatted_prompt = NoPrompt
  /\ attempt = 0
  /\ invocations = <<>>
  /\ query_result = NoResult

NoCaller ==
  /\ question = <<>>
  /\ content_type = ""
  /\ conversation_history = <<>>
  /\ is_action_request = FALSE
  /\ topic_keywords = <<>>
  /\ search_query = <<>>
  /\ NoAnswering

\* no request for a demo video is being served
NoDemo ==
  /\ demo_query = <<>>
  /\ demo_limit = 0
  /\ cleaned_query = <<>>
  /\ sorted_results = <<>>
  /\ result_index = 0
  /\ videos = <<>>
  /\ suggestions = <<>>
  /\ seen_video_ids = {}
  /\ response = NoResponse

InitRequest(queries, roles, limits, prevs) ==
  /\ query \in queries
  /\ user_role \in roles
  /\ user_id = 1
  /\ limit \in limits
  /\ previously_used_docs \in prevs

(***************************************************************************)
(* Spec: one call of search                                                *)
(***************************************************************************)
Init ==
  /\ InitRequest({Q_segmentation, Q_zero_trust}, {R_employee, R_hr},
                 0..MaxLimit, {{}, {NumDocs}})
  /\ failing = {}
  /\ InitIndex({0, NumDocs}, DocKinds, Layouts)
  /\ pc = "strategy1"
  /\ InitLocals
  /\ run = 1
  /\ first_results = <<>>
  /\ NoCaller
  /\ NoDemo

Next == SearchStep

Spec == Init /\ [][Next]_vars

(***************************************************************************)
(* SpecTwice: search is called twice with the same arguments               *)
(***************************************************************************)
InitTwice ==
  /\ InitRequest({Q_segmentation}, {R_employee}, 1..MaxLimit, {{}, {1}})
  /\ failing = {}
  /\ InitIndex({NumDocs}, {"zts_public", "net_public", "guide_unowned"},
               {"unique", "shared"})
  /\ pc = "strategy1"
  /\ InitLocals
  /\ run = 1
  /\ first_results = <<>>
  /\ NoCaller
  /\ NoDemo

NextTwice == SearchStep \/ SearchAgain

SpecTwice == InitTwice /\ [][NextTwice]_vars

(***************************************************************************)
(* SpecFail: one call of search on an index of which one call raises       *)
(***************************************************************************)
InitFail ==
  /\ InitRequest({Q_zero_trust, Q_Zero_Trust}, {R_employee}, {2}, {{}})
  /\ failing \in {{}, GuardedCalls} \cup {{c} : c \in GuardedCalls}
  /\ InitIndex({NumDocs}, {"zts_public", "net_public"}, {"unique"})
  /\ pc = "strategy1"
  /\ InitLocals
  /\ run = 1
  /\ first_results = <<>>
  /\ NoCaller
  /\ NoDemo

NextFail == SearchStep

SpecFail == InitFail /\ [][NextFail]_vars

(***************************************************************************)
(* SpecRank: one call of search over documents all named after the query   *)
(* term, some tagged or titled with it, some used earlier in the           *)
(* conversation                                                            *)
(***************************************************************************)
InitRank ==
  /\ InitRequest({Q_segmentation}, {R_employee}, 1..(MaxLimit + 1),
                 {{}, {1}, {NumDocs}})
  /\ failing = {}
  /\ InitIndex({NumDocs}, GuideKinds, {"unique"})
  /\ pc = "strategy1"
  /\ InitLocals
  /\ run = 1
  /\ first_results = <<>>
  /\ NoCaller
  /\ NoDemo

NextRank == SearchStep

SpecRank == InitRank /\ [][NextRank]_vars

(***************************************************************************)
(* SpecQuery: one call of query, up to the return of its call of search    *)
(***************************************************************************)
InitQuery ==
  /\ question \in {Q_save_it_as_a_doc, Q_Make_a_deck, Q_segmentation}
  /\ content_type \in {"", "doc"}
  /\ conversation_history \in Histories(WellFormedMessages \cup MalformedMessages)
  /\ is_action_request = FALSE
  /\ topic_keywords = <<>>
  /\ search_query = <<>>
  /\ query = <<>>
  /\ user_role = R_employee
  /\ user_id = 1
  /\ limit = QueryLimit
  /\ previously_used_docs = {}
  /\ collection = <<>>
  /\ dist = <<>>
  /\ failing = {}
  /\ pc = "detect"
  /\ InitLocals
  /\ run = 1
  /\ first_results = <<>>
  /\ NoAnswering
  /\ NoDemo

NextQuery == QueryStep \/ SearchStep

SpecQuery == InitQuery /\ [][NextQuery]_vars

(***************************************************************************)
(* SpecDemo: one call of find_demo_videos                                  *)
(***************************************************************************)
\* a request for a demo video over an index of demo documents
InitDemoFor(queries, limits, failings, sizes) ==
  /\ demo_query \in queries
  /\ demo_limit \in limits
  /\ cleaned_query = <<>>
  /\ sorted_results = <<>>
  /\ result_index = 0
  /\ videos = <<>>
  /\ suggestions = <<>>
  /\ seen_video_ids = {}
  /\ response = NoResponse
  /\ query = <<>>
  /\ user_role = R_employee
  /\ user_id = 1
  /\ limit = 0
  /\ previously_used_docs = {}
  /\ failing \in failings
  /\ \E text \in {QueryForMatching(clean_query(demo_query), demo_query)} :
       InitIndexFor(text, sizes, DemoKinds, {"unique"})
  /\ pc = "clean"
  /\ InitLocals
  /\ run = 1
  /\ first_results = <<>>
  /\ NoCaller

InitDemo ==
  InitDemoFor({D_show_me_eve_firewall, D_eve, D_please_generate_a_firewall_video},
              {1, 2}, {{}}, {NumDocs})

NextDemo == DemoStep \/ SearchStep

SpecDemo == InitDemo /\ [][NextDemo]_vars

(***************************************************************************)
(* SpecDemoFail: one call of find_demo_videos over an index that may be    *)
(* empty and whose calls may all raise                                     *)
(***************************************************************************)
InitDemoFail == InitDemoFor({D_eve}, {1, 2}, {{}, GuardedCalls}, {0, NumDocs})

NextDemoFail == DemoStep \/ SearchStep

SpecDemoFail == InitDemoFail /\ [][NextDemoFail]_vars

(***************************************************************************)
(* SpecDemoTerms: one call of find_demo_videos for an acronym, for the     *)
(* name it stands for, and for several terms of which one is an acronym    *)
(***************************************************************************)
InitDemoTerms ==
  InitDemoFor({D_eve, D_encrypted_visibility_engine, D_firewall_routing_eve},
              {1, 2}, {{}}, {NumDocs})

NextDemoTerms == DemoStep \/ SearchStep

SpecDemoTerms == InitDemoTerms /\ [][NextDemoTerms]_vars

(***************************************************************************)
(* Properties of search                                                    *)
(***************************************************************************)
Returned == pc = "done"

\* the rule of the permission filter as specified: public, or owned by the
\* requesting user, or the requesting role is one of the allowed roles
MayRead(uid, role, metadata) ==
  \/ metadata.is_public
  \/ metadata.owner_id = uid
  \/ role \in Range(SplitOn(metadata.allowed_roles, ","))

\* C1: the list search returns never holds a chunk that is not public, not
\* owned by the requesting user and not open to the requesting role
C1_OnlyReadableReturned ==
  Returned => \A i \in 1..Len(filtered_results) :
                 MayRead(user_id, user_role, filtered_results[i].metadata)

\* C3: search returns at most `limit` entries, and nothing when limit = 0 or
\* when no candidate was retrieved
C3_AtMostLimit ==
  Returned => /\ Len(filtered_results) <= limit
              /\ (limit = 0 \/ all_results = <<>>) => filtered_results = <<>>

C3_Witness ==
  /\ Returned
  /\ limit >= 1
  /\ Len(permission_filtered) > limit
  /\ Len(filtered_results) = limit

\* C4: no two returned entries share the (documentId, first 50 characters) pair
C4_NoDuplicateEntries ==
  Returned => \A i, j \in 1..Len(filtered_results) :
                 i # j =>
                   <<filtered_results[i].metadata.document_id,
                     ContentPrefix(filtered_results[i].content)>>
                   # <<filtered_results[j].metadata.document_id,
                       ContentPrefix(filtered_results[j].content)>>

\* several strategies hit the same chunk, and the selection had room left
\* after the first two passes, so that selected chunks met the third pass too
C4_Witness ==
  /\ Returned
  /\ Len(all_results) > Len(unique_results)
  /\ Len(filtered_results) >= 3
  /\ LET boosted == BoostedDocuments(permission_filtered, previously_used_docs)
         results == ApplyContinuity(permission_filtered, previously_used_docs)
         first == BoostedPass(results, boosted, limit)
     IN  Len(DiversifyPass(results, boosted, limit, first)) < Len(filtered_results)

\* C5: every returned chunk has score <= original_score
C5_BoostNeverWorsens ==
  Returned => \A i \in 1..Len(filtered_results) :
                 filtered_results[i].score <= filtered_results[i].original_score

\* a returned chunk that got a metadata boost and the continuity adjustment
C5_Witness ==
  /\ Returned
  /\ \E i \in 1..Len(filtered_results) :
       /\ filtered_results[i].metadata.document_id \in previously_used_docs
       /\ filtered_results[i].score
            < filtered_results[i].original_score - ContinuityBoost

Permitted(results) == SelectSeq(results, LAMBDA r : HasAccess(user_role, r.metadata))

C7_FilterBeforeDiversification ==
  Returned =>
    filtered_results =
      SelectResults(FilterPermissions(user_role, RankResults(query, Permitted(all_results))),
                    previously_used_docs, limit)

\* a refused chunk was retrieved, ranked ahead of a chunk that was returned,
\* and the budget was too small for all readable chunks
C7_Witness ==
  /\ Returned
  /\ filtered_results # <<>>
  /\ Len(permission_filtered) > limit
  /\ ~HasAccess(user_role, unique_results[1].metadata)

(***************************************************************************)
(* Properties of find_demo_videos                                          *)
(***************************************************************************)
Responded == pc = "responded"

\* the retrieved chunks that bear a link and classify as a precise match
PreciseChunks ==
  {i \in 1..Len(filtered_results) :
     /\ extract_youtube_links(filtered_results[i].content.text) # <<>>
     /\ matches_query_precisely(QueryForMatching(cleaned_query, demo_query),
                                filtered_results[i].content.text,
                                filtered_results[i].metadata.filename,
                                filtered_results[i].metadata)}

\* the video is one of the links of a precise-match chunk
FromPreciseChunk(v) ==
  \E i \in PreciseChunks :
    /\ filtered_results[i].metadata.filename = v.source_document
    /\ \E link \in Range(extract_youtube_links(filtered_results[i].content.text)) :
         link.video_id = v.video_id

\* C2: a response never holds both suggestions and other videos; when some
\* retrieved link-bearing chunk is a precise match every returned video comes
\* from such a chunk and none is tagged is_suggestion; tagged videos appear
\* only when there is no precise match
C2_PreciseMatchExclusive ==
  Responded =>
    LET returned == Range(response.videos)
    IN  /\ ~(\E v, w \in returned : v.is_suggestion /\ ~w.is_suggestion)
        /\ PreciseChunks # {} =>
             \A v \in returned : ~v.is_suggestion /\ FromPreciseChunk(v)
        /\ (\E v \in returned : v.is_suggestion) => PreciseChunks = {}

\* a response with videos for which the loop had met both a precise match
\* and a chunk good enough for a suggestion
C2_Witness ==
  /\ Responded
  /\ PreciseChunks # {}
  /\ suggestions # <<>>
  /\ response.videos # <<>>
(***************************************************************************)
(* Properties of the query rewriting                                       *)
(***************************************************************************)
\* query has made its call of search
SearchCalled ==
  pc \notin {"detect", "scan_assistant", "scan_user", "build", "call_search",
             "query_raised"}

\* the question contains one of the action phrases
ContainsActionPhrase(q) == \E phrase \in ActionPhrases : Contains(phrase, q)

\* the position in the history of the most recent substantial user message
LastSubstantial ==
  CHOOSE i \in 1..Len(conversation_history) :
    /\ IsSubstantial(conversation_history[i])
    /\ \A j \in (i + 1)..Len(conversation_history) :
         ~IsSubstantial(conversation_history[j])

HasSubstantial ==
  \E i \in 1..Len(conversation_history) : IsSubstantial(conversation_history[i])

\* C8 as stated: for a question with an action phrase and a history with a
\* substantial user message, the string passed to search is the content of
\* the most recent such message
C8_SearchStringIsTopicContent ==
  (SearchCalled /\ ContainsActionPhrase(question) /\ HasSubstantial) =>
     query = conversation_history[LastSubstantial].content.val

\* C8: for a question with an action phrase and a history with a substantial
\* user message (more than 20 characters once stripped), the string passed to
\* search is the content of the most recent such message with its leading
\* and trailing whitespace removed
C8_SearchStringIsStrippedTopic ==
  (SearchCalled /\ ContainsActionPhrase(question) /\ HasSubstantial) =>
     query = Strip(conversation_history[LastSubstantial].content.val)

\* an action question after two substantial user messages of which the later
\* one is padded: search got the later one, stripped
C8_Witness ==
  /\ SearchCalled
  /\ ContainsActionPhrase(question)
  /\ Len(conversation_history) >= 2
  /\ IsSubstantial(conversation_history[1])
  /\ LastSubstantial > 1
  /\ query # conversation_history[LastSubstantial].content.val
  /\ query # UserContent(conversation_history[1])
  /\ query # question

\* an entry with a field missing, null or of another type
Malformed(msg) == msg \in MalformedMessages

\* C9: the rewriting never raises, and for a history of malformed entries the
\* search string is the literal question and both sets are empty
C9_RewritingNeverRaises ==
  /\ pc # "query_raised"
  /\ (/\ pc = "call_search"
      /\ \A i \in 1..Len(conversation_history) : Malformed(conversation_history[i]))
       => /\ search_query = question
          /\ previously_used_docs = {}
          /\ topic_keywords = <<>>

\* C10: whichever single index call raises, search does not raise, and once
\* retrieval is over the hits of every step none of whose calls raised are
\* in the merged candidate list
C10_StrategyFailureTolerated ==
  /\ pc # "raised"
  /\ pc \in {"rank", "filter", "select", "done"} =>
       \A step \in StepNames :
         Raising(step) = {} => Range(StepHits(step)) \subseteq Range(all_results)

\* a call raised, search returned, and the other steps' hits were returned
C10_Witness ==
  /\ Returned
  /\ \E step \in StepNames : Raising(step) # {}
  /\ all_results # <<>>
  /\ filtered_results # <<>>

(***************************************************************************)
(* Properties of search when the index fails                               *)
(***************************************************************************)
\* the steps other than the direct lookup none of whose calls raised
AnsweringSteps == {step \in StepNames \ {"direct"} : Raising(step) = {}}

\* the chunk of a hit, whatever score the hit carries
ChunkOf(r) == [content |-> r.content, metadata |-> r.metadata]

C11_AllFailedWitness ==
  /\ Returned
  /\ failing = GuardedCalls
  /\ filtered_results = <<>>

(***************************************************************************)
(* Properties of find_demo_videos when the index fails                     *)
(***************************************************************************)
\* the responses find_demo_videos gives when the index answers and nothing
\* matches: no chunk retrieved (lines 630-634), no video found (854-858)
NoMatchResponses ==
  {NoDocumentsResponse(cleaned_query, demo_query),
   NotFoundResponse(cleaned_query, demo_query)}

\* C12: the response to a call during which the index calls raised is none
\* of the responses given when the index answers and nothing matches
C12_FailureDistinctFromNoMatch ==
  (Responded /\ failing = GuardedCalls) => response \notin NoMatchResponses

\* the index answered with no chunk and the response is the no-match one
C12_NoMatchWitness ==
  /\ Responded
  /\ failing = {}
  /\ collection = <<>>
  /\ response \in NoMatchResponses

(***************************************************************************)
(* Properties of the selection passes                                      *)
(***************************************************************************)
\* the documents search treats as boosted, and the permitted chunks that
\* belong to them, with the scores the selection works on
BoostedNow == BoostedDocuments(permission_filtered, previously_used_docs)

BoostedPool ==
  SelectSeq(ApplyContinuity(permission_filtered, previously_used_docs),
            LAMBDA r : DocumentId(r) \in BoostedNow)

\* C13: when the boosted pool holds at least limit chunks, search returns
\* exactly limit chunks, each a different chunk of the pool (so none of a
\* non-boosted document), and their scores are the limit lowest of the pool
C13_BoostedPoolFillsBudget ==
  (Returned /\ Len(BoostedPool) >= limit) =>
    /\ Len(filtered_results) = limit
    /\ \A i \in 1..Len(filtered_results) :
         /\ filtered_results[i] \in Range(BoostedPool)
         /\ DocumentId(filtered_results[i]) \in BoostedNow
         /\ \A j \in 1..Len(filtered_results) :
              i # j => filtered_results[i] # filtered_results[j]
    /\ Scores(filtered_results) = Take(Scores(ByScore(BoostedPool)), limit)

\* the pool filled a budget of two or more although a permitted chunk of a
\* non-boosted document scored better than one of the chunks returned
C13_Witness ==
  /\ Returned
  /\ limit >= 2
  /\ Len(BoostedPool) >= limit
  /\ \E i \in 1..Len(permission_filtered), j \in 1..Len(filtered_results) :
       /\ DocumentId(permission_filtered[i]) \notin BoostedNow
       /\ permission_filtered[i].score < filtered_results[j].score

(***************************************************************************)
(* Properties of the ranking                                               *)
(***************************************************************************)
\* every term of the query occurs in the text, and the query has a term
TermsIn(text) ==
  /\ QueryTerms(query) # {}
  /\ \A t \in QueryTerms(query) : Contains(t, Lower(text))

\* results i and j are chunks of equal raw score of two documents both named
\* after the query term, of which only the document of i is tagged with it
TaggedAgainstUntagged(i, j) ==
  LET a == filtered_results[i]
      b == filtered_results[j]
  IN  /\ DocumentId(a) # DocumentId(b)
      /\ a.original_score = b.original_score
      /\ TermsIn(a.metadata.filename) /\ TermsIn(b.metadata.filename)
      /\ TermsIn(a.metadata.tags) /\ ~TermsIn(b.metadata.tags)

\* C14 (as stated): of two such chunks the tagged document's comes first
C14_TaggedRanksFirst ==
  Returned =>
    \A i, j \in 1..Len(filtered_results) : TaggedAgainstUntagged(i, j) => i < j

\* the two documents get the same title boost, and both or neither were
\* used earlier in the conversation
OtherwiseTied(i, j) ==
  LET a == filtered_results[i]
      b == filtered_results[j]
  IN  /\ TitleMatchScore(QueryTerms(query), Lower(a.metadata.title))
           = TitleMatchScore(QueryTerms(query), Lower(b.metadata.title))
      /\ DocumentId(a) \in previously_used_docs
           <=> DocumentId(b) \in previously_used_docs

\* C14 (amended): of two such chunks that are otherwise tied, the tagged
\* document's has the strictly lower score and comes first
C14_TaggedRanksFirstWhenTied ==
  Returned =>
    \A i, j \in 1..Len(filtered_results) :
      (TaggedAgainstUntagged(i, j) /\ OtherwiseTied(i, j)) =>
        /\ i < j
        /\ filtered_results[i].score < filtered_results[j].score

\* the untagged document has the lower document id, and its chunk is
\* returned after the equally scored chunk of the tagged document
C14_Witness ==
  /\ Returned
  /\ \E i, j \in 1..Len(filtered_results) :
       /\ TaggedAgainstUntagged(i, j)
       /\ OtherwiseTied(i, j)
       /\ DocumentId(filtered_results[j]) < DocumentId(filtered_results[i])

\* C15: the list search returns is in ascending order of score
C15_OutputAscending ==
  Returned =>
    \A i \in 1..(Len(filtered_results) - 1) :
      filtered_results[i].score <= filtered_results[i + 1].score

\* the second pass had put a chunk of a non-boosted document after a worse
\* chunk of a document boosted for conversation continuity, and the
\* returned list is in order all the same
C15_Witness ==
  /\ Returned
  /\ Len(filtered_results) >= 3
  /\ previously_used_docs # {}
  /\ \E i \in 1..Len(filtered_results) :
       DocumentId(filtered_results[i]) \in previously_used_docs
  /\ \E i \in 1..Len(filtered_results) :
       DocumentId(filtered_results[i]) \notin BoostedNow
  /\ LET boosted == BoostedNow
         results == ApplyContinuity(permission_filtered, previously_used_docs)
         first == BoostedPass(results, boosted, limit)
         second == DiversifyPass(results, boosted, limit, first)
         third == BackfillPass(results, boosted, limit, first, second)
     IN  /\ first # <<>>
         /\ Len(first) < Len(second)
         /\ third # filtered_results

(***************************************************************************)
(* The outcomes of find_demo_videos                                        *)
(***************************************************************************)
\* the retrieved link-bearing chunks that are no precise match and score
\* above the suggestion threshold
SuggestionCandidates ==
  {i \in 1..Len(filtered_results) :
     /\ extract_youtube_links(filtered_results[i].content.text) # <<>>
     /\ i \notin PreciseChunks
     /\ calculate_relevance_score(QueryForMatching(cleaned_query, demo_query),
                                  filtered_results[i].content.text,
                                  filtered_results[i].metadata.filename,
                                  filtered_results[i].metadata,
                                  filtered_results[i].score) > SuggestionThreshold}

PreciseFound ==
  /\ response.status = "success"
  /\ response.message = Message("Found", Len(response.videos), demo_query)
  /\ response.videos # <<>>
  /\ ~response.is_suggestion

SuggestionsFound ==
  /\ response.status = "success"
  /\ response.message.kind = "Perhaps you are referring to"
  /\ response.videos # <<>>
  /\ response.is_suggestion

NoneFound ==
  /\ response.status = "success"
  /\ response.videos = <<>>
  /\ ~response.is_suggestion
  /\ response.message.kind \in {"No documents found matching", "No demo videos found for"}

\* the phases in their order: cleaning, then the one call of search, then
\* classifying, then the response
PhaseOrder ==
  /\ pc = "clean" => pc' = "retrieve"
  /\ pc' = "retrieve" => pc = "clean"
  /\ pc = "retrieve" => pc' = "strategy1"
  /\ pc' = "strategy1" => pc = "retrieve"
  /\ pc' = "classify" => pc \in {"done", "classify"}
  /\ pc' = "deliver" => pc = "classify"
  /\ pc' = "responded" => pc \in {"done", "deliver"}
  /\ pc = "responded" => pc' = "responded"

\* C16: a call cleans, retrieves exactly once, classifies and ends in one
\* outcome: PreciseFound iff some retrieved link-bearing chunk is a precise
\* match, SuggestionsFound iff none is and some candidate scores above the
\* threshold, NoneFound otherwise
C16_OneTerminalOutcome ==
  /\ [][PhaseOrder]_vars
  /\ [](Responded =>
          /\ PreciseFound <=> PreciseChunks # {}
          /\ SuggestionsFound <=> (PreciseChunks = {} /\ SuggestionCandidates # {})
          /\ NoneFound <=> (PreciseChunks = {} /\ SuggestionCandidates = {}))

\* chunks with links were retrieved, none matched precisely or scored above
\* the threshold, and the response is the not-found one
C16_Witness ==
  /\ Responded
  /\ NoneFound
  /\ \E i \in 1..Len(filtered_results) :
       extract_youtube_links(filtered_results[i].content.text) # <<>>

\* the video ids among the links of retrieved chunk i
LinkIds(i) ==
  {link.video_id : link \in Range(extract_youtube_links(filtered_results[i].content.text))}

FilenameCandidates ==
  {i \in 1..Len(filtered_results) :
     /\ extract_youtube_links(filtered_results[i].content.text) # <<>>
     /\ i \notin PreciseChunks
     /\ \E t \in Range(CleanedQueryTerms(cleaned_query, demo_query)) :
          Contains(t, Lower(filtered_results[i].metadata.filename))}

\* C18: when no retrieved chunk is a precise match, every such candidate is
\* among the suggestions with a relevance score of at least 0.2, and the
\* response offers suggestions
C18_FilenameHitIsSuggested ==
  (Responded /\ PreciseChunks = {} /\ FilenameCandidates # {}) =>
    /\ \A i \in FilenameCandidates :
         \E k \in 1..Len(suggestions) :
           /\ suggestions[k].result = filtered_results[i]
           /\ suggestions[k].relevance_score >= SuggestionThreshold
    /\ SuggestionsFound

\* a candidate named after a term of the query scored 0.2 or less, nothing
\* matched precisely, and the response is the not-found one
C18_RejectedWitness ==
  /\ Responded
  /\ PreciseChunks = {}
  /\ FilenameCandidates # {}
  /\ NoneFound

(***************************************************************************)
(* Properties of the acronym rule                                          *)
(***************************************************************************)
\* the query the classifier is given, as it compares it
MatchedQuery == Strip(Lower(QueryForMatching(cleaned_query, demo_query)))

\* the rows of the acronym table the query equals the acronym or a
\* variation of
RowsEqualTo(q) ==
  {a \in 1..Len(product_acronyms) :
     q = product_acronyms[a][1] \/ q \in Range(product_acronyms[a][2])}

\* a variation of row a occurs in the tags, the derived product name or the
\* normalized filename of retrieved chunk i
VariationOccurs(a, i) ==
  LET r == filtered_results[i]
      product == extract_product_from_content(r.content.text, r.metadata.filename)
  IN  \E v \in Range(product_acronyms[a][2]) :
        \/ \E tag \in Range(AllTags(r.content.text, r.metadata)) : Contains(v, tag)
        \/ Contains(v, Lower(product)) /\ product # <<>>
        \/ Contains(v, NormalizedFilename(r.metadata.filename))

\* the text holds a link youtu.be/<id>, the id not running on after it
ParsedFrom(id, text) ==
  LET host == <<"y","o","u","t","u",".","b","e","/">>
  IN  \E pos \in 1..Len(text) :
        /\ HasAt(Lower(text), pos, host)
        /\ SubSeq(text, pos + Len(host), pos + Len(host) + Len(id) - 1) = id
        /\ \/ pos + Len(host) + Len(id) > Len(text)
           \/ text[pos + Len(host) + Len(id)] \notin IdChars

\* C19: for a query equal to an acronym or one of its variations, every
\* retrieved link-bearing chunk in which a variation of that acronym occurs
\* is a precise match, the response is the found one, and every video id
\* returned is the id of a link of a precise-match chunk as written there
C19_AcronymIsPrecise ==
  Responded =>
    \A i \in 1..Len(filtered_results) :
      (/\ extract_youtube_links(filtered_results[i].content.text) # <<>>
       /\ \E a \in RowsEqualTo(MatchedQuery) : VariationOccurs(a, i)) =>
        /\ i \in PreciseChunks
        /\ PreciseFound
        /\ \A v \in Range(response.videos) :
             \E j \in PreciseChunks :
               ParsedFrom(v.video_id, filtered_results[j].content.text)

\* the query is the name the acronym stands for, the chunk holds the
\* acronym only, and its video is returned
C19_Witness ==
  /\ Responded
  /\ demo_query = D_encrypted_visibility_engine
  /\ PreciseFound
  /\ \E i \in PreciseChunks :
       /\ \E a \in RowsEqualTo(MatchedQuery) : VariationOccurs(a, i)
       /\ ~Contains(MatchedQuery, Lower(filtered_results[i].content.text))
       /\ \E v \in Range(response.videos) :
            ParsedFrom(v.video_id, filtered_results[i].content.text)

\* the rows of the acronym table of which the acronym or a variation occurs
\* in the query, or the query in it
RowsTouching(q) ==
  {a \in 1..Len(product_acronyms) :
     \E n \in {product_acronyms[a][1]} \cup Range(product_acronyms[a][2]) :
       Contains(n, q) \/ (q # <<>> /\ Contains(q, n))}

\* C20: for a query that contains, or is contained by, an entry of the
\* acronym table, every retrieved link-bearing chunk in which a variation of
\* that entry occurs is a precise match
C20_AcronymContainedIsPrecise ==
  Responded =>
    \A i \in 1..Len(filtered_results) :
      (/\ extract_youtube_links(filtered_results[i].content.text) # <<>>
       /\ \E a \in RowsTouching(MatchedQuery) : VariationOccurs(a, i)) =>
        i \in PreciseChunks

\* the query holds the acronym among other terms, the chunk is named after
\* the acronym, and the chunk is no precise match
C20_ContainedWitness ==
  /\ Responded
  /\ RowsEqualTo(MatchedQuery) = {}
  /\ \E i \in 1..Len(filtered_results) :
       /\ extract_youtube_links(filtered_results[i].content.text) # <<>>
       /\ \E a \in RowsTouching(MatchedQuery) : VariationOccurs(a, i)
       /\ i \notin PreciseChunks


(***************************************************************************)
(* SpecTie: one call of search on an index larger than search_k, where the *)
(* query as written, its normalized form and its terms each have their own *)
(* distances to the chunks, so that a lookup can miss what another returns *)
(***************************************************************************)
TieLimits == {1}

InitTie ==
  /\ InitRequest({Q_zero_trust}, {R_employee}, TieLimits, {{}})
  /\ failing = {}
  /\ \E n \in {NumDocs + 1} :
       /\ collection = CollectionOf([d \in 1..n |-> "net_public"], "unique", n)
       /\ \E direct \in [1..n -> DocDists], normalized \in [1..n -> DocDists],
             term \in [1..n -> DocDists] :
            dist = [t \in IssuedTexts(query) |->
                      [id \in (1..n) \X ChunkSlots |->
                         CASE t = query -> direct[id[1]][id[2]]
                           [] t = NormalizedQuery(query) -> normalized[id[1]][id[2]]
                           [] OTHER -> term[id[1]][id[2]]]]
  /\ pc = "strategy1"
  /\ InitLocals
  /\ run = 1
  /\ first_results = <<>>
  /\ NoCaller
  /\ NoDemo

NextTie == SearchStep

SpecTie == InitTie /\ [][NextTie]_vars

\* the stored chunk is among the hits of the step
ReturnedBy(step, c) ==
  \E i \in 1..Len(StepHits(step)) :
    /\ StepHits(step)[i].content = c.document
    /\ StepHits(step)[i].metadata = c.metadata

ReturnedOnlyBy(steps, c) ==
  /\ \E s \in steps : ReturnedBy(s, c)
  /\ \A s \in StepNames \ steps : ~ReturnedBy(s, c)

\* the raw score the merged list holds for a stored chunk
RawScores(c) ==
  {all_results[i].score : i \in {j \in 1..Len(all_results) :
      /\ all_results[j].content = c.document
      /\ all_results[j].metadata = c.metadata}}

\* a chunk only the lookup of the query as written returns, and another only
\* the lookup of the normalized or hyphenated query returns, at the same
\* positive distance in the index
TiedAcrossLookups(c, e) ==
  /\ c # e
  /\ ReturnedOnlyBy({"direct"}, c)
  /\ ReturnedOnlyBy({"normalized", "hyphenated"}, e)
  /\ dist[query][c.id] > 0
  /\ \E t \in {NormalizedQuery(query), HyphenatedQuery(query)} \ {Lower(query)} :
       dist[t][e.id] = dist[query][c.id]

\* C21: on a tie of index distance between a chunk only the direct lookup
\* returns and a chunk only the normalized lookup returns, the raw score of
\* the direct chunk in the merged list is not higher (not worse) than the
\* raw score of the normalized chunk
C21_DirectNotWorseOnTie ==
  pc = "rank" =>
    \A c \in Range(collection), e \in Range(collection) :
      TiedAcrossLookups(c, e) =>
        \A sc \in RawScores(c), se \in RawScores(e) : sc <= se

\* what the code does on such a tie: the normalized chunk is the better one
C21_NormalizedBetterOnTie ==
  pc = "rank" =>
    \A c \in Range(collection), e \in Range(collection) :
      TiedAcrossLookups(c, e) =>
        \A sc \in RawScores(c), se \in RawScores(e) : se < sc

C21_TieWitness ==
  /\ pc = "rank"
  /\ \E c \in Range(collection), e \in Range(collection) :
       TiedAcrossLookups(c, e) /\ RawScores(c) # {} /\ RawScores(e) # {}


\* position of the first occurrence of a chunk in the merged candidate list
FirstOccurrence(r) ==
  CHOOSE i \in 1..Len(all_results) :
    /\ ChunkKey(all_results[i]) = ChunkKey(r)
    /\ \A j \in 1..(i - 1) : ChunkKey(all_results[j]) # ChunkKey(r)

\* two places of the output, the earlier one first, whose scores are equal
TiedInOutput(i, j) ==
  /\ i \in 1..Len(filtered_results)
  /\ j \in 1..Len(filtered_results)
  /\ i < j
  /\ filtered_results[i].score = filtered_results[j].score

\* C22: two chunks of the search output with equal boosted scores appear in
\* the order of their first occurrence in the merged candidate list
C22_TiesInMergeOrder ==
  Returned =>
    \A i \in 1..Len(filtered_results), j \in 1..Len(filtered_results) :
      TiedInOutput(i, j) =>
        FirstOccurrence(filtered_results[i]) < FirstOccurrence(filtered_results[j])

C22_TieWitness ==
  /\ Returned
  /\ \E i \in 1..Len(filtered_results), j \in 1..Len(filtered_results) :
       /\ TiedInOutput(i, j)
       /\ DocumentId(filtered_results[i]) # DocumentId(filtered_results[j])


\* C22 (amended): of two chunks of the search output with equal scores, a
\* chunk of a boosted document never comes after a chunk of a document that
\* is not boosted, whichever of the two occurs first in the merged list
C22_TiesInSelectionOrder ==
  Returned =>
    \A i \in 1..Len(filtered_results), j \in 1..Len(filtered_results) :
      TiedInOutput(i, j) =>
        ~(/\ DocumentId(filtered_results[i]) \notin BoostedNow
          /\ DocumentId(filtered_results[j]) \in BoostedNow)

\* a boosted document's chunk is returned before an equally scored chunk of a
\* document that is not boosted and that the merged list holds earlier
C22_Witness ==
  /\ Returned
  /\ \E i \in 1..Len(filtered_results), j \in 1..Len(filtered_results) :
       /\ TiedInOutput(i, j)
       /\ DocumentId(filtered_results[i]) \in BoostedNow
       /\ DocumentId(filtered_results[j]) \notin BoostedNow
       /\ FirstOccurrence(filtered_results[j]) < FirstOccurrence(filtered_results[i])


(***************************************************************************)
(* SpecBoost: one call of search with queries of one, two and three terms  *)
(* over documents that have a filename and neither title nor tags, so that *)
(* the boost of a ranked chunk is its filename boost                       *)
(***************************************************************************)
InitBoost ==
  /\ InitRequest({Q_segmentation, Q_network_segmentation,
                  Q_network_segmentation_routing}, {R_employee}, {1, 2}, {{}})
  /\ failing = {}
  /\ InitIndex({NumDocs}, BoostKinds, {"unique"})
  /\ pc = "strategy1"
  /\ InitLocals
  /\ run = 1
  /\ first_results = <<>>
  /\ NoCaller
  /\ NoDemo

NextBoost == SearchStep

SpecBoost == InitBoost /\ [][NextBoost]_vars

Ranked == pc \in {"filter", "select", "done"}

\* the amount line 277 took off the raw score of a ranked chunk
BoostOf(r) == r.original_score - r.score

NoTitleNoTags(r) == r.metadata.title = <<>> /\ r.metadata.tags = <<>>

\* the query terms that occur in the filename, anywhere and as whole words
OccurringTerms(r) ==
  {t \in QueryTerms(query) : Contains(t, Lower(r.metadata.filename))}

WholeWordTerms(r) ==
  {t \in QueryTerms(query) : t \in Range(SplitWs(Lower(r.metadata.filename)))}

\* the lower tiers: 0.4 from half of the terms on, a smaller positive amount
\* in proportion below that, nothing when no term occurs
LowerTiers(r) ==
  LET n == Cardinality(QueryTerms(query))
      k == Cardinality(OccurringTerms(r))
  IN  IF 2 * k >= n THEN BoostOf(r) = FilenameStrongBoost
      ELSE IF k > 0
           THEN /\ BoostOf(r) = (FilenamePartialBoost * k) \div n
                /\ BoostOf(r) > 0
                /\ BoostOf(r) < FilenameStrongBoost
           ELSE BoostOf(r) = 0

\* C23: with at least one boosting term, the filename boost is 0.5 when all
\* terms are whole words of the filename, for one-term queries too;
\* otherwise 0.4 when at least half of the terms occur in it, a smaller
\* positive amount in proportion when fewer occur, and 0 when none occurs
C23_FilenameBoostTiers ==
  Ranked /\ QueryTerms(query) # {} =>
    \A i \in 1..Len(unique_results) :
      NoTitleNoTags(unique_results[i]) =>
        IF WholeWordTerms(unique_results[i]) = QueryTerms(query)
        THEN BoostOf(unique_results[i]) = FilenamePhraseBoost
        ELSE LowerTiers(unique_results[i])

\* C23 (amended): the boost is 0.5 when the query has at least two terms and
\* all of them are whole words of the filename; a one-term query whose term
\* is a whole word of the filename gets 0.4 like any other query of which
\* at least half of the terms occur; below that the tiers are as stated
C23_FilenameBoostTiersFromTwoTerms ==
  Ranked /\ QueryTerms(query) # {} =>
    \A i \in 1..Len(unique_results) :
      NoTitleNoTags(unique_results[i]) =>
        IF /\ Cardinality(QueryTerms(query)) >= 2
           /\ WholeWordTerms(unique_results[i]) = QueryTerms(query)
        THEN BoostOf(unique_results[i]) = FilenamePhraseBoost
        ELSE LowerTiers(unique_results[i])

\* a one-term query whose term is a whole word of a ranked chunk's filename
C23_Witness ==
  /\ Ranked
  /\ Cardinality(QueryTerms(query)) = 1
  /\ \E i \in 1..Len(unique_results) :
       /\ NoTitleNoTags(unique_results[i])
       /\ WholeWordTerms(unique_results[i]) = QueryTerms(query)
       /\ BoostOf(unique_results[i]) = FilenameStrongBoost

\* the phrase tier and the half-of-the-terms tier occur for one query
C23_PhraseWitness ==
  /\ Ranked
  /\ \E i \in 1..Len(unique_results), j \in 1..Len(unique_results) :
       /\ BoostOf(unique_results[i]) = FilenamePhraseBoost
       /\ BoostOf(unique_results[j]) = FilenameStrongBoost


(***************************************************************************)
(* RAGService.query after its call of search: the prompt (lines 505-606),  *)
(* the calls of the model (608-842) and what is returned (844-869)         *)
(***************************************************************************)
MaxRetries == 5
PromptHistoryWindow == 10
MaxHistoryContent == 1000
SourceContentLen == 200
ErrorSources == 3
AnswerSources == 5

\* the substrings lines 694-698, 740-744 and 760 look for in str(bedrock_error)
S_ThrottlingException ==
  <<"T","h","r","o","t","t","l","i","n","g","E","x","c","e","p","t","i","o","n">>
S_Too_many_requests ==
  <<"T","o","o"," ","m","a","n","y"," ","r","e","q","u","e","s","t","s">>
S_throttl ==
  <<"t","h","r","o","t","t","l">>
S_NoneType_not_subscriptable ==
  <<"'","N","o","n","e","T","y","p","e","'"," ","o","b","j","e","c","t"," ","i","s"," ","n","o","t"," ","s","u","b","s","c","r","i","p","t","a","b","l","e">>
S_outputs ==
  <<"o","u","t","p","u","t","s">>
S_ellipsis ==
  <<".",".",".">>

\* what llm.invoke can raise
E_throttling ==
  <<"T","h","r","o","t","t","l","i","n","g","E","x","c","e","p","t","i","o","n",":"," ","T","o","o"," ","m","a","n","y"," ","r","e","q","u","e","s","t","s">>
E_throttled ==
  <<"R","a","t","e"," ","e","x","c","e","e","d","e","d",":"," ","r","e","q","u","e","s","t"," ","w","a","s"," ","t","h","r","o","t","t","l","e","d">>
E_invalid_response ==
  <<"E","r","r","o","r"," ","r","a","i","s","e","d"," ","b","y"," ","b","e","d","r","o","c","k"," ","s","e","r","v","i","c","e",":"," ","'","N","o","n","e","T","y","p","e","'"," ","o","b","j","e","c","t"," ","i","s"," ","n","o","t"," ","s","u","b","s","c","r","i","p","t","a","b","l","e">>
E_access_denied ==
  <<"A","c","c","e","s","s","D","e","n","i","e","d","E","x","c","e","p","t","i","o","n">>

\* the texts of the exceptions query itself raises: lines 801 and 818, the
\* first sentence of the messages of lines 712-718 and 776-787, and the
\* UnboundLocalError of line 769, where the f-string reads settings, a name
\* the import of line 623 makes local to query and only that branch binds
X_none_response ==
  <<"L","L","M"," ","r","e","t","u","r","n","e","d"," ","N","o","n","e"," ","r","e","s","p","o","n","s","e">>
X_empty_response ==
  <<"L","L","M"," ","r","e","t","u","r","n","e","d"," ","e","m","p","t","y"," ","r","e","s","p","o","n","s","e">>
X_rate_limit ==
  <<"A","W","S"," ","B","e","d","r","o","c","k"," ","r","a","t","e"," ","l","i","m","i","t"," ","e","x","c","e","e","d","e","d","."," ","P","l","e","a","s","e"," ","w","a","i","t"," ","a"," ","m","o","m","e","n","t"," ","a","n","d"," ","t","r","y"," ","a","g","a","i","n",".">>
X_unbound_settings ==
  <<"c","a","n","n","o","t"," ","a","c","c","e","s","s"," ","l","o","c","a","l"," ","v","a","r","i","a","b","l","e"," ","'","s","e","t","t","i","n","g","s","'"," ","w","h","e","r","e"," ","i","t"," ","i","s"," ","n","o","t"," ","a","s","s","o","c","i","a","t","e","d"," ","w","i","t","h"," ","a"," ","v","a","l","u","e">>

A_segmentation_answer ==
  <<"S","e","g","m","e","n","t","a","t","i","o","n"," ","s","p","l","i","t","s"," ","a"," ","n","e","t","w","o","r","k"," ","i","n","t","o"," ","z","o","n","e","s",".">>

\* the types get_chat_model can return; "unconfigured" when it raises
\* ValueError (lines 508-510)
LLMTypes == {"unconfigured", "BedrockLLM", "ChatBedrock", "ChatOpenAI"}
BedrockTypes == {"BedrockLLM", "ChatBedrock"}

\* what one call of llm.invoke ends with: a response with content, None,
\* or an exception with its text
Content(text) == [kind |-> "content", text |-> text]
NoneResponse == [kind |-> "none", text |-> <<>>]
Raises(text) == [kind |-> "error", text |-> text]

LLMOutcomes ==
  { Content(A_segmentation_answer), Content(<<>>), Content(<<" ", "\n">>),
    NoneResponse,
    Raises(E_throttling), Raises(E_throttled), Raises(E_invalid_response),
    Raises(E_access_denied) }

\* lines 694-698 and 740-744
IsThrottling(error_str) ==
  \/ Contains(S_ThrottlingException, error_str)
  \/ Contains(S_Too_many_requests, error_str)
  \/ Contains(S_throttl, Lower(error_str))

\* line 760
IsInvalidResponse(error_str) ==
  \/ Contains(S_NoneType_not_subscriptable, error_str)
  \/ Contains(S_outputs, Lower(error_str))

\* lines 700-708 and 746-754: the loop sleeps and calls again
Retries(type, n, outcome) ==
  /\ type \in BedrockTypes
  /\ outcome.kind = "error"
  /\ IsThrottling(outcome.text)
  /\ n < MaxRetries - 1

\* str(e) of the exception that reaches the handler of line 844 when the
\* call is not repeated, <<>> when none does
HandledError(type, outcome) ==
  CASE outcome.kind = "none" -> X_none_response
    [] outcome.kind = "content" ->
         IF Strip(outcome.text) = <<>> THEN X_empty_response ELSE <<>>
    [] outcome.kind = "error" ->
         IF type = "ChatBedrock" /\ IsInvalidResponse(outcome.text)
         THEN X_unbound_settings
         ELSE IF type \in BedrockTypes /\ IsThrottling(outcome.text)
              THEN X_rate_limit
              ELSE outcome.text

\* doc["content"][:200]: the first 50 characters and what the next 150 hold
SourceContent(content) ==
  [prefix |-> content.prefix, text |-> Take(content.text, SourceContentLen)]

\* the sources of a result: context_docs[:n]
ResultSources(docs, n) ==
  [i \in 1..(IF Len(docs) < n THEN Len(docs) ELSE n) |->
     [content |-> SourceContent(docs[i].content), metadata |-> docs[i].metadata]]

\* lines 540-552: a line per message of the last ten
HistoryContext(history) ==
  LET window == LastN(history, PromptHistoryWindow)
      line(msg) ==
        LET content == IF msg.content.tag = "str" THEN msg.content.val ELSE <<>>
        IN  [role_label |-> IF msg.role = "user" THEN "User" ELSE "Assistant",
             content |-> IF Len(content) > MaxHistoryContent
                         THEN Take(content, MaxHistoryContent) \o S_ellipsis
                         ELSE content]
  IN  [i \in 1..Len(window) |-> line(window[i])]

\* lines 545-549: msg.get on what is no dict, len() of a content of None
PromptRaises(history) ==
  \E msg \in Range(LastN(history, PromptHistoryWindow)) :
    ~IsDict(msg) \/ msg.content.tag = "none"

\* the prompt formatted with the string passed to search
PromptQuestionIsSearchQuery(q, sq) == sq

\* line 604: question=question
PromptQuestion(q, sq) == q

\* lines 505-606: the context, the model, the prompt
ComposePrompt ==
  /\ pc = "done"
  /\ llm_type \in LLMTypes
  /\ IF llm_type = "unconfigured"
     THEN /\ query_result' =
               IF filtered_results # <<>>
               THEN [answer |-> [kind |-> "context_without_model", text |-> <<>>],
                     sources |-> ResultSources(filtered_results, ErrorSources)]
               ELSE [answer |-> [kind |-> "nothing_without_model", text |-> <<>>],
                     sources |-> <<>>]
          /\ pc' = "returned"
          /\ UNCHANGED formatted_prompt
     ELSE IF filtered_results = <<>>
          THEN /\ query_result' =
                    [answer |-> [kind |-> "cannot_find", text |-> <<>>], sources |-> <<>>]
               /\ pc' = "returned"
               /\ UNCHANGED formatted_prompt
          ELSE IF PromptRaises(conversation_history)
               THEN /\ pc' = "query_raised"
                    /\ UNCHANGED <<formatted_prompt, query_result>>
               ELSE /\ formatted_prompt' =
                         [history_context |-> HistoryContext(conversation_history),
                          context |-> [i \in 1..Len(filtered_results) |->
                                         filtered_results[i].content],
                          question |-> PromptQuestion(question, search_query)]
                    /\ pc' = "invoke"
                    /\ UNCHANGED query_result
  /\ UNCHANGED <<llm_type, attempt, invocations>>
  /\ UNCHANGED <<scan, demo, caller, outer, index, request, locals>>

\* lines 608-869: one call of llm.invoke and what follows it; a Bedrock
\* model is called again after a throttling error, up to five times in all
Invoke ==
  /\ pc = "invoke"
  /\ \E outcome \in LLMOutcomes :
       /\ invocations' = Append(invocations, outcome)
       /\ IF Retries(llm_type, attempt, outcome)
          THEN /\ attempt' = attempt + 1
               /\ pc' = "invoke"
               /\ UNCHANGED query_result
          ELSE /\ query_result' =
                    IF HandledError(llm_type, outcome) # <<>>
                    THEN [answer |-> [kind |-> "error",
                                      text |-> HandledError(llm_type, outcome)],
                          sources |-> ResultSources(filtered_results, ErrorSources)]
                    ELSE [answer |-> [kind |-> "answer", text |-> outcome.text],
                          sources |-> ResultSources(filtered_results, AnswerSources)]
               /\ pc' = "returned"
               /\ UNCHANGED attempt
  /\ UNCHANGED <<llm_type, formatted_prompt>>
  /\ UNCHANGED <<scan, demo, caller, outer, index, request, locals>>

AnswerStep == ComposePrompt \/ Invoke


(***************************************************************************)
(* SpecAnswer: one call of query, from its arguments to what it returns    *)
(***************************************************************************)
U_six_keywords ==
  <<"z","o","n","e"," ","e","d","g","e"," ","c","o","r","e"," ","m","e","s","h"," ","p","o","r","t"," ","v","l","a","n">>

UserMessage(text) ==
  [kind |-> "dict", role |-> "user", content |-> StrContent(text),
   metadata |-> DictMetadata(<<>>)]

AssistantMessage(sources) ==
  [kind |-> "dict", role |-> "assistant", content |-> StrContent(A_segmentation_answer),
   metadata |-> DictMetadata(sources)]

\* no history; a question and its answer citing a document; a question of
\* six keywords
H_none == <<>>
H_zero_trust ==
  <<UserMessage(U_zero_trust_segmentation),
    AssistantMessage(<<Source(1, F_zero_trust_segmentation)>>)>>
H_six_keywords == <<UserMessage(U_six_keywords)>>

ContentTypes == ContentTypesWithHint \cup {"", "pdf"}

\* the calls of query the model makes: every model type with and without a
\* history and a content type; every content type; the long history
AnswerConfigs ==
  [q : {Q_segmentation, Q_Make_a_deck}, ct : {"", "doc"},
   h : {H_none, H_zero_trust}, llm : LLMTypes, sizes : {{0, NumDocs}}]
  \cup [q : {Q_segmentation}, ct : ContentTypes, h : {H_none},
        llm : {"ChatOpenAI"}, sizes : {{NumDocs}}]
  \cup [q : {Q_segmentation}, ct : {""}, h : {H_six_keywords},
        llm : {"ChatOpenAI"}, sizes : {{0}}]

\* every string query can pass to search for a question and a history
SearchQueries(q, history) ==
  LET window == Reversed(LastN(history, HistoryWindow))
      keywords == Flatten([i \in 1..Len(window) |-> CitedKeywords(window[i])])
                    \o UserKeywords(history)
  IN  {q, TopicQuery(history)}
        \cup {q \o <<" ">> \o Join(Take(order, MaxKeywords), <<" ">>) :
                order \in SetOrders(Range(keywords))}

InitAnswer ==
  /\ \E cfg \in AnswerConfigs :
       /\ question = cfg.q
       /\ content_type = cfg.ct
       /\ conversation_history = cfg.h
       /\ llm_type = cfg.llm
       /\ \E n \in cfg.sizes :
            /\ collection = CollectionOf([d \in 1..n |-> "zts_public"], "unique", n)
            /\ IF n = 0 THEN dist = <<>>
               ELSE \E texts \in {UNION {IssuedTexts(sq) :
                                           sq \in SearchQueries(cfg.q, cfg.h)}} :
                      \E distOf \in [1..n -> DocDists] :
                        dist = [t \in texts |->
                                  [id \in (1..n) \X ChunkSlots |-> distOf[id[1]][id[2]]]]
  /\ is_action_request = FALSE
  /\ topic_keywords = <<>>
  /\ search_query = <<>>
  /\ query = <<>>
  /\ user_role = R_employee
  /\ user_id = 1
  /\ limit = QueryLimit
  /\ previously_used_docs = {}
  /\ failing = {}
  /\ pc = "detect"
  /\ InitLocals
  /\ run = 1
  /\ first_results = <<>>
  /\ formatted_prompt = NoPrompt
  /\ attempt = 0
  /\ invocations = <<>>
  /\ query_result = NoResult
  /\ NoDemo

NextAnswer == QueryStep \/ SearchStep \/ AnswerStep

SpecAnswer == InitAnswer /\ [][NextAnswer]_vars


\* the question is no action request and the history gave topic keywords
FollowUpWithKeywords ==
  /\ SearchCalled
  /\ ~is_action_request
  /\ topic_keywords # <<>>

\* what follows the question and a space in the string passed to search
AppendedKeywords == SplitOn(Drop(query, Len(question) + 1), " ")

PromptComposed == pc \in {"invoke", "returned"} /\ formatted_prompt # NoPrompt

\* C24: for a question that is no action request, with topic keywords from
\* the history, the string passed to search is the literal question followed
\* by at most 5 pairwise distinct topic keywords, and the prompt composed for
\* the answer holds the literal question, not the string passed to search
C24_SearchEnhancedPromptLiteral ==
  FollowUpWithKeywords =>
    /\ Take(query, Len(question) + 1) = question \o <<" ">>
    /\ Len(AppendedKeywords) <= MaxKeywords
    /\ \A i \in 1..Len(AppendedKeywords) :
         /\ AppendedKeywords[i] \in Range(topic_keywords)
         /\ \A j \in 1..(i - 1) : AppendedKeywords[j] # AppendedKeywords[i]
    /\ PromptComposed =>
         /\ formatted_prompt.question = question
         /\ formatted_prompt.question # query

\* a prompt was composed after a search with keywords appended
C24_Witness ==
  /\ FollowUpWithKeywords
  /\ PromptComposed
  /\ Len(AppendedKeywords) >= 2
  /\ query # question

\* more than 5 distinct keywords were at hand and 5 were passed
C24_TruncatedWitness ==
  /\ FollowUpWithKeywords
  /\ Cardinality(Range(topic_keywords)) > MaxKeywords
  /\ Len(AppendedKeywords) = MaxKeywords


\* a permitted chunk that was not selected although room was left, and that
\* shares its first 50 characters with a selected chunk of another document
LeftOut(r) ==
  /\ r \in Range(ApplyContinuity(permission_filtered, previously_used_docs))
  /\ r \notin Range(filtered_results)
  /\ Len(filtered_results) < limit
  /\ \E s \in Range(filtered_results) :
       /\ DocumentId(s) # DocumentId(r)
       /\ ContentPrefix(s.content) = ContentPrefix(r.content)

\* C25: search returns min(limit, number of deduplicated permitted chunks)
\* chunks; a chunk that is not selected yet stays eligible for the backfill
\* when it shares its first 50 characters with a selected chunk of another
\* document
C25_WholeBudgetUsed ==
  Returned =>
    /\ Len(filtered_results) =
         (IF limit < Len(permission_filtered) THEN limit ELSE Len(permission_filtered))
    /\ \A r \in Range(ApplyContinuity(permission_filtered, previously_used_docs)) :
         ~LeftOut(r)

\* room was left and a permitted chunk was left out
C25_LeftOutWitness ==
  /\ Returned
  /\ \E r \in Range(ApplyContinuity(permission_filtered, previously_used_docs)) :
       LeftOut(r)


\* the selection as the first and the second pass leave it
AfterBoostedPass ==
  BoostedPass(ApplyContinuity(permission_filtered, previously_used_docs),
              BoostedNow, limit)

AfterDiversifyPass ==
  DiversifyPass(ApplyContinuity(permission_filtered, previously_used_docs),
                BoostedNow, limit, AfterBoostedPass)

\* the documents with a permitted chunk that are not boosted
NonBoostedDocs ==
  {DocumentId(r) : r \in Range(permission_filtered)} \ BoostedNow

\* the budget left after the boosted pass
Remaining == limit - Len(AfterBoostedPass)

\* chunks of a document among those the second pass appended
TakenByDiversify(d) ==
  Cardinality({i \in (Len(AfterBoostedPass) + 1)..Len(AfterDiversifyPass) :
                 DocumentId(AfterDiversifyPass[i]) = d})

\* C26: with a remaining budget R of at least the number D of non-boosted
\* documents, each of them has a chunk in the output and none has given more
\* than max(1, R div D) chunks before the backfill; with R < D the second
\* pass takes exactly one chunk from each of R documents
C26_Diversified ==
  Returned /\ NonBoostedDocs # {} =>
    LET D == Cardinality(NonBoostedDocs)
    IN  IF Remaining >= D
        THEN /\ \A d \in NonBoostedDocs :
                  \E r \in Range(filtered_results) : DocumentId(r) = d
             /\ \A d \in NonBoostedDocs :
                  TakenByDiversify(d) <= Max(1, Remaining \div D)
        ELSE /\ Cardinality({d \in NonBoostedDocs : TakenByDiversify(d) = 1}) = Remaining
             /\ \A d \in NonBoostedDocs : TakenByDiversify(d) <= 1

\* two non-boosted documents share a budget of at least two
C26_Witness ==
  /\ Returned
  /\ Cardinality(NonBoostedDocs) >= 2
  /\ Remaining >= Cardinality(NonBoostedDocs)
  /\ \A d \in NonBoostedDocs : TakenByDiversify(d) >= 1

\* more non-boosted documents than budget
C26_ShortWitness ==
  /\ Returned
  /\ Remaining > 0
  /\ Remaining < Cardinality(NonBoostedDocs)


\* the assets the precise-match chunks carry
PreciseAssets == UNION {LinkIds(i) : i \in PreciseChunks}

\* the best (lowest) score search gave a precise-match chunk carrying the asset
BestScoreOf(id) ==
  CHOOSE s \in {filtered_results[i].score : i \in {j \in PreciseChunks : id \in LinkIds(j)}} :
    \A i \in PreciseChunks : id \in LinkIds(i) => s <= filtered_results[i].score

ReturnedAssets == {response.videos[k].video_id : k \in 1..Len(response.videos)}

MoreAssetsThanLimit ==
  /\ Responded
  /\ PreciseFound
  /\ demo_limit >= 1
  /\ Cardinality(PreciseAssets) > demo_limit

\* C27: when the precise-match chunks carry more than limit distinct assets,
\* the assets returned are those of the best-ranked chunks (lowest score as
\* search returned it) and the returned list has the best match first
C27_BestAssetsBestFirst ==
  MoreAssetsThanLimit =>
    /\ \A v \in ReturnedAssets, w \in PreciseAssets \ ReturnedAssets :
         BestScoreOf(v) <= BestScoreOf(w)
    /\ \A k \in 1..(Len(response.videos) - 1) :
         response.videos[k].relevance_score <= response.videos[k + 1].relevance_score

\* an asset of a better-ranked chunk was left out for one of a worse chunk
C27_WorseReturnedWitness ==
  /\ MoreAssetsThanLimit
  /\ \E v \in ReturnedAssets, w \in PreciseAssets \ ReturnedAssets :
       BestScoreOf(w) < BestScoreOf(v)

\* the returned list has its worst match first
C27_WorstFirstWitness ==
  /\ MoreAssetsThanLimit
  /\ \E k \in 1..(Len(response.videos) - 1) :
       response.videos[k].relevance_score > response.videos[k + 1].relevance_score


(***************************************************************************)
(* Strategy 5 call by call (lines 176-204), and RAGService.delete_document *)
(* (lines 110-116) running beside a search                                 *)
(***************************************************************************)
\* a fetch that yields a chunk the index no longer holds
FetchChunkStale(coll, chunk_id) ==
  IF \E c \in Range(coll) : c.id = chunk_id
  THEN <<(CHOOSE c \in Range(coll) : c.id = chunk_id).document>>
  ELSE <<[text |-> <<>>, prefix |-> 0, rest |-> 0]>>

\* collection.get(ids=[chunk_id])["documents"] (line 193)
FetchChunk(coll, chunk_id) ==
  IF \E c \in Range(coll) : c.id = chunk_id
  THEN <<(CHOOSE c \in Range(coll) : c.id = chunk_id).document>>
  ELSE <<>>

\* line 182: the filename of a listed entry contains a long important term
EntryMatches(md, q) ==
  /\ Lower(md.filename) # <<>>
  /\ \E t \in Range(ImportantTerms(q)) :
       Len(t) > MinScanTermLen /\ Contains(t, Lower(md.filename))

\* line 178: all_docs = collection.get()
ScanList ==
  /\ pc = "strategy5"
  /\ all_docs' = [i \in 1..Len(collection) |-> collection[i].metadata]
  /\ entry_index' = 0
  /\ pc' = "scan_entry"
  /\ UNCHANGED <<doc_ids, chunk_index>>
  /\ UNCHANGED <<answering, demo, caller, outer, index, request, locals>>

\* lines 180-188: the next listed entry and, when its filename matches, the
\* ids the index holds for its document now
ScanEntry ==
  /\ pc = "scan_entry"
  /\ IF entry_index < Len(all_docs)
     THEN LET metadata == all_docs[entry_index + 1]
          IN  IF EntryMatches(metadata, query) /\ Truthy(metadata.document_id)
              THEN /\ doc_ids' =
                        LET chunks == Take(ChunksOfDocument(collection, metadata.document_id),
                                           ScanChunksPerDoc)
                        IN  [j \in 1..Len(chunks) |-> chunks[j].id]
                   /\ chunk_index' = 0
                   /\ pc' = "scan_chunk"
                   /\ UNCHANGED entry_index
              ELSE /\ entry_index' = entry_index + 1
                   /\ UNCHANGED <<doc_ids, chunk_index, pc>>
     ELSE /\ pc' = "rank"
          /\ UNCHANGED <<entry_index, doc_ids, chunk_index>>
  /\ UNCHANGED all_docs
  /\ UNCHANGED <<answering, demo, caller, outer, index, request, locals>>

\* lines 190-202: the next id is fetched and, when the index still holds its
\* content, appended with the listed metadata at score 0.5
ScanChunk ==
  /\ pc = "scan_chunk"
  /\ IF chunk_index < Len(doc_ids)
     THEN /\ \E documents \in {FetchChunk(collection, doc_ids[chunk_index + 1])} :
               all_results' =
                 IF documents # <<>>
                 THEN Append(all_results,
                             [content |-> documents[1],
                              metadata |-> all_docs[entry_index + 1],
                              score |-> FilenameScanScore])
                 ELSE all_results
          /\ chunk_index' = chunk_index + 1
          /\ UNCHANGED <<entry_index, pc>>
     ELSE /\ entry_index' = entry_index + 1
          /\ pc' = "scan_entry"
          /\ UNCHANGED <<chunk_index, all_results>>
  /\ UNCHANGED <<all_docs, doc_ids>>
  /\ UNCHANGED <<answering, demo, caller, outer, request, collection, dist, failing,
                 term_index, unique_results, permission_filtered, filtered_results>>

\* delete_document (lines 110-116) for a document the index holds, at any
\* point of a running search: its chunks are looked up and removed
DeleteDocument ==
  /\ pc \notin {"done", "raised"}
  /\ \E document_id \in {c.metadata.document_id : c \in Range(collection)} :
       collection' = SelectSeq(collection,
                               LAMBDA c : c.metadata.document_id # document_id)
  /\ UNCHANGED <<dist, failing, pc>>
  /\ UNCHANGED <<scan, answering, demo, caller, outer, request, locals>>

SearchStepByCall ==
  \/ Strategy1 \/ Strategy2 \/ Strategy3 \/ Strategy4
  \/ ScanList \/ ScanEntry \/ ScanChunk
  \/ Rank \/ Filter \/ Select

(***************************************************************************)
(* SpecStale: one call of search while documents are being deleted         *)
(***************************************************************************)
InitStale ==
  /\ InitRequest({Q_segmentation}, {R_employee}, {2}, {{}})
  /\ failing = {}
  /\ InitIndex({NumDocs}, {"guide_public", "net_public"}, {"unique"})
  /\ pc = "strategy1"
  /\ InitLocals
  /\ run = 1
  /\ first_results = <<>>
  /\ NoCaller
  /\ NoDemo

NextStale == SearchStepByCall \/ DeleteDocument

SpecStale == InitStale /\ [][NextStale]_vars


\* a step of the filename scan that appends an entry appends the content the
\* index holds for the fetched id at that step
ScanAppendsFetched ==
  (pc = "scan_chunk" /\ Len(all_results') > Len(all_results)) =>
    /\ chunk_index < Len(doc_ids)
    /\ \E c \in Range(collection) :
         /\ c.id = doc_ids[chunk_index + 1]
         /\ all_results'[Len(all_results')].content = c.document

\* how far search has got: the stage, then the place within the stage
Stage ==
  CASE pc = "strategy1" -> 1 [] pc = "strategy2" -> 2 [] pc = "strategy3" -> 3
    [] pc = "strategy4" -> 4 [] pc = "strategy5" -> 5
    [] pc \in {"scan_entry", "scan_chunk"} -> 6
    [] pc = "rank" -> 7 [] pc = "filter" -> 8 [] pc = "select" -> 9
    [] OTHER -> 10

Progress ==
  Stage * 1000 + term_index * 100
    + entry_index * (ScanChunksPerDoc + 2)
    + (IF pc = "scan_chunk" THEN 1 + chunk_index ELSE 0)

\* a step of search moves it forward
SearchAdvances ==
  (<<pc, term_index, entry_index, chunk_index>>' # <<pc, term_index, entry_index, chunk_index>>)
    => Progress' > Progress

\* search has a step to take: the term lookups, the ranking and the selection
\* are conditioned on the position alone, the other steps on the state the
\* scan has reached
SearchCanStep ==
  \/ pc \in {"strategy4", "rank", "select"}
  \/ ENABLED (Strategy1 \/ Strategy2 \/ Strategy3 \/ ScanList \/ ScanEntry
                \/ ScanChunk \/ Filter)

\* C28: whenever delete_document runs between the index calls of a search,
\* between the listing of the filename scan and its fetches included, search
\* does not raise and completes (it always has a next step to take, and each
\* step moves it forward), and the filename scan adds no entry for a chunk
\* whose content the index no longer holds
C28_StaleReferencesTolerated ==
  /\ [](pc # "raised" /\ (pc = "done" \/ SearchCanStep))
  /\ [][ScanAppendsFetched /\ SearchAdvances]_vars

\* the scan has gone through the ids of a listed document whose chunks were
\* deleted after the ids were read, and has added nothing for it
C28_Witness ==
  /\ pc = "scan_chunk"
  /\ Len(doc_ids) >= 1
  /\ chunk_index = Len(doc_ids)
  /\ \A j \in 1..Len(doc_ids) : FetchChunk(collection, doc_ids[j]) = <<>>
  /\ \A i \in 1..Len(all_results) :
       ~(/\ all_results[i].score = FilenameScanScore
         /\ all_results[i].metadata = all_docs[entry_index + 1])

\* a document was deleted after the listing and before its ids were read
C28_ListedThenDeletedWitness ==
  /\ pc = "scan_chunk"
  /\ doc_ids = <<>>


\* C29: once query has called search for a content type that has hint words,
\* the string search was given contains the hint words of that type
C29_HintWordsPassedToSearch ==
  (SearchCalled /\ content_type \in ContentTypesWithHint)
    => Contains(ContentTypeHint(content_type), query)

\* search was called with the literal question for a content type with hint
\* words, although the question with the hint words was built and read for
\* the detection of an action request
C29_LiteralQuestionWitness ==
  /\ SearchCalled
  /\ content_type \in ContentTypesWithHint
  /\ EnhancedQuestion(question, content_type) # question
  /\ query = question


\* the last call of llm.invoke ended with an error, None or no text
LastInvocation == invocations[Len(invocations)]

InvocationFailed ==
  /\ pc = "returned"
  /\ invocations # <<>>
  /\ \/ LastInvocation.kind \in {"error", "none"}
     \/ Strip(LastInvocation.text) = <<>>

\* the text of the error an invocation ended with: the rate-limit message
\* when throttling went on to the last call, the text of any other exception,
\* the message for a response of None or without text
ErrorText(outcome) ==
  CASE outcome.kind = "none" -> X_none_response
    [] outcome.kind = "content" -> X_empty_response
    [] outcome.kind = "error" ->
         IF IsThrottling(outcome.text) THEN X_rate_limit ELSE outcome.text

\* a Bedrock model is called at most five times, again only after a
\* throttling error; the loop ends, and query raises nothing once it has
\* called the model
BedrockRetryBounded ==
  llm_type \in BedrockTypes =>
    /\ Len(invocations) <= MaxRetries
    /\ \A i \in 1..(Len(invocations) - 1) :
         invocations[i].kind = "error" /\ IsThrottling(invocations[i].text)
    /\ pc = "invoke" => (attempt = Len(invocations) /\ attempt < MaxRetries)
    /\ pc = "query_raised" => invocations = <<>>

\* a failed invocation is answered with an error answer and at most the
\* first three retrieved chunks as sources
BedrockFailureAnswered ==
  (llm_type \in BedrockTypes /\ InvocationFailed) =>
    /\ query_result.answer.kind = "error"
    /\ query_result.sources = ResultSources(filtered_results, ErrorSources)
    /\ Len(query_result.sources) <= ErrorSources

\* C30: for a Bedrock model, query calls the model at most five times, again
\* only after a throttling error, and always terminates; whatever the
\* invocation ends with (throttling to the last call, another error, None or
\* an empty response), query does not raise and returns an answer that carries
\* the text of that error, with at most the first three retrieved chunks
C30_BedrockErrorsAnswered ==
  /\ BedrockRetryBounded
  /\ BedrockFailureAnswered
  /\ (llm_type \in BedrockTypes /\ InvocationFailed) =>
       Contains(ErrorText(LastInvocation), query_result.answer.text)

\* five throttled calls of a Bedrock model, answered with the rate-limit text
C30_ThrottledOutWitness ==
  /\ llm_type \in BedrockTypes
  /\ InvocationFailed
  /\ Len(invocations) = MaxRetries
  /\ query_result.answer.text = X_rate_limit

\* a ChatBedrock call that raised an invalid-response error, answered with
\* the text of the error raised while the message for it was built
C30_UnboundSettingsWitness ==
  /\ llm_type = "ChatBedrock"
  /\ InvocationFailed
  /\ LastInvocation = Raises(E_invalid_response)
  /\ query_result.answer.text = X_unbound_settings
  /\ ~Contains(E_invalid_response, query_result.answer.text)

====
